---- MODULE Spec2Model ----
(***************************************************************************)
(* A model of yarp's transaction engine (yarp/value.py): Reactive nodes    *)
(* (Value and Event), their weakly held dependents, the cached, lazily     *)
(* rebuilt topological index (_TransactionInfo) and the transaction        *)
(* protocol of _in_transaction/_in_new_transaction.                        *)
(*                                                                         *)
(* The Python call stack is explicit (stack): user callbacks re-enter the  *)
(* engine, so every set/emit, listener call and settle step is a frame,    *)
(* and an exception unwinds the frames one at a time.                      *)
(*                                                                         *)
(* On top of the engine: the fn decorator (yarp/function_wrappers.py) and  *)
(* emit_at with the event loop's timers (yarp/temporal.py).                *)
(***************************************************************************)
EXTENDS Integers, Sequences, FiniteSets, TLC

(* ---- bounds of the model ---------------------------------------------- *)
MaxOps == 5
MaxNodes == 3
MaxInputs == 2
MaxListeners == 2
MaxLateInputs == 1
MaxData == 1
MaxDrops == 1
MaxPayload == 2
MaxCalls == 3
MaxTime == 2
MaxStates == 2
MaxWindow == 2
RecursionLimit == 16

(* ---- the two sentinels (integers, so that they compare with data) ----- *)
NoValue == -1
NoChange == -2
\* Python's None, where a datum or a time can be None
None == -3
\* FSM.START, and the timeout_len of example_fsm in units of the loop's clock
START == 0
TimeoutLen == 1

Data == 1 .. MaxData
ValMod == MaxData + 2

VARIABLES
    reactives,      \* the Reactive objects, by identity (1..Len)
    mark_changed,   \* _transaction_state.mark_changed
    stack,          \* the call stack, innermost frame last
    exc,            \* the exception in flight, or the one the last call raised
    trace,          \* what the current (or last) top-level call did, in order
    ops,            \* number of operations the program has called so far
    late,           \* number of add_input calls among them
    timer,          \* the nonlocals of an emit_at call (temporal.py 111-113)
    loop,           \* the asyncio event loop: its clock and its timer handles
    fsm,            \* the attributes and nonlocals of an FSM (fsm.py 55-137)
    output_values   \* the list of a window call (general.py 25)

vars == <<reactives, mark_changed, stack, exc, trace, ops, late, timer, loop, fsm, output_values>>

Ids == 1 .. Len(reactives)

(* ---- small helpers ---------------------------------------------------- *)
Max2(a, b) == IF a >= b THEN a ELSE b

RECURSIVE SumSeq(_)
SumSeq(s) == IF s = <<>> THEN 0 ELSE Head(s) + SumSeq(Tail(s))

Reverse(s) == [i \in 1 .. Len(s) |-> s[Len(s) + 1 - i]]

Range(s) == {s[i] : i \in 1 .. Len(s)}

\* strictly increasing sequences over 1..n of length at most k
IncSeqs(n, k) ==
    {s \in UNION {[1 .. len -> 1 .. n] : len \in 0 .. k} :
        \A i \in 1 .. Len(s) - 1 : s[i] < s[i + 1]}

(* ---- records ---------------------------------------------------------- *)
\* _transaction_state.mark_changed: None, the closure of the no-dependents
\* path (k = "nodeps") or the closure made by a transaction rooted at self
\* over the lists reactives[self].lists[slot] (k = "tx")
NoContext == [k |-> "none", self |-> 0, slot |-> 0]

Ev(e, n, v, i) == [e |-> e, n |-> n, v |-> v, i |-> i]

\* no emit_at has been called; a loop that has been asked for nothing
NoTimer == [event |-> 0, timer |-> None, timer_time |-> None, timer_emit |-> None]
IdleLoop == [now |-> 0, handles |-> <<>>]

\* no FSM has been made
NoFsm ==
    [state |-> 0, timeout_length |-> 0, timeout_time |-> 0, timeout_event |-> 0,
     inputs |-> <<>>, inputs_list |-> <<>>, handling_timeout |-> FALSE,
     state_value |-> START]

\* a frame of the call stack. op: "set" (the Value.value setter), "emit"
\* (Event.emit), "cb" (a listener), "done" (_on_inputs_done). tx: how a
\* set/emit entered its with block ("join", "nodeps", "new"). The last four
\* fields only observe: the context, the datum and the length of the trace
\* when the call was made, and the nodes its walk has run
Frame(op, self, val) ==
    [op |-> op, self |-> self, val |-> val, pc |-> "enter", i |-> 1,
     tx |-> "none", slot |-> 0, old |-> NoContext,
     entry |-> mark_changed, was |-> reactives[self].value, t0 |-> Len(trace),
     ran |-> <<>>]

Top == stack[Len(stack)]
Running == stack # <<>>
Pop(s) == SubSeq(s, 1, Len(s) - 1)
SetTop(s, f) == [s EXCEPT ![Len(s)] = f]

(* ---- user code: recompute functions, reactions and listeners ---------- *)
\* the data a user function of node n reads: the sum of the data of the
\* nodes it was written over (args: the inputs given at construction), where
\* an Event and an unset Value count 0
InSum(rs, n) ==
    SumSeq([j \in 1 .. Len(rs[n].args) |->
               IF rs[rs[n].args[j]].value = NoValue THEN 0
               ELSE rs[rs[n].args[j]].value]) % ValMod

\* get_value of a Value, by kind of function: a datum, NoChange, or "raise"
\*   "sum"  : the inputs' sum plus one
\*   "part" : NoChange if the inputs' sum is 0 (as f of test_nochange_value),
\*            an exception if it is 1, else the sum
GetValue(rs, n) ==
    CASE rs[n].fn = "sum"  -> [raise |-> FALSE, v |-> (InSum(rs, n) + 1) % ValMod]
      [] rs[n].fn = "part" -> [raise |-> InSum(rs, n) = 1,
                               v |-> IF InSum(rs, n) = 0 THEN NoChange ELSE InSum(rs, n)]
      [] OTHER             -> [raise |-> FALSE, v |-> NoChange]

\* on_inputs_done of an Event: the payloads it passes to emit, in order, or "raise"
\*   "emit"  : one emission of the inputs' sum
\*   "multi" : none if the inputs' sum is 0, two emissions (the sum, then
\*             the sum plus one) if it is 1, else an exception
Reaction(rs, n) ==
    CASE rs[n].fn = "emit"  -> [raise |-> FALSE, out |-> <<InSum(rs, n)>>]
      [] rs[n].fn = "multi" -> [raise |-> InSum(rs, n) = 2,
                                out |-> IF InSum(rs, n) = 1
                                        THEN <<InSum(rs, n), InSum(rs, n) + 1>>
                                        ELSE <<>>]
      [] OTHER              -> [raise |-> FALSE, out |-> <<>>]

ValueFns == {"none", "sum", "part"}
EventFns == {"none", "emit", "multi"}

\* a listener: records its argument ("nop"), passes it on to another node
\* ("fwd": tgt.value = payload, or tgt.emit(payload)), or raises; key is
\* used by the listeners that fn registers (see function_wrappers.py below)
Listeners ==
    {[act |-> "nop", tgt |-> 0, key |-> 0], [act |-> "raise", tgt |-> 0, key |-> 0]}
        \cup {[act |-> "fwd", tgt |-> t, key |-> 0] : t \in Ids}

(* ---- the dependency index: value.py 36-117 ---------------------------- *)
\* _dfs_deps: acc = [all, visited, err, depth]; err is the interpreter's
\* RecursionError, raised when the recursion is RecursionLimit deep; depth
\* is the deepest recursion reached
RECURSIVE _dfs_deps(_, _, _, _)
RECURSIVE DfsLoop(_, _, _, _, _)
_dfs_deps(rs, r, acc, depth) ==
    IF acc.err THEN acc
    ELSE IF depth > RecursionLimit THEN [acc EXCEPT !.err = TRUE]
    ELSE LET a0 == [acc EXCEPT !.depth = Max2(@, depth)] IN
         IF r \in a0.visited THEN a0
         ELSE LET a1 == DfsLoop(rs, r, 1, a0, depth) IN
              IF a1.err THEN a1
              ELSE [a1 EXCEPT !.visited = @ \cup {r}, !.all = Append(@, r)]

DfsLoop(rs, r, j, acc, depth) ==
    IF acc.err \/ j > Len(rs[r].deps) THEN acc
    ELSE IF rs[rs[r].deps[j]].kind = "dead"
         THEN \* line 56: a weak reference whose object is gone is skipped
              DfsLoop(rs, r, j + 1, acc, depth)
         ELSE DfsLoop(rs, r, j + 1, _dfs_deps(rs, rs[r].deps[j], acc, depth + 1), depth)

\* a variant that lists each node when the traversal first meets it
RECURSIVE PreOrder(_, _, _)
PreOrder(rs, todo, seen) ==
    IF todo = <<>> THEN seen
    ELSE IF Head(todo) \in Range(seen) THEN PreOrder(rs, Tail(todo), seen)
    ELSE PreOrder(rs, rs[Head(todo)].deps \o Tail(todo), Append(seen, Head(todo)))

TopoPreOrder(rs, r) ==
    LET pre == PreOrder(rs, <<r>>, <<>>)
    IN [all |-> pre, err |-> FALSE, depth |-> Len(stack) + Len(pre)]

\* a variant that moves the root to the front instead of reversing the list
TopoRootToFront(rs, r) ==
    LET a == _dfs_deps(rs, r, [all |-> <<>>, visited |-> {}, err |-> FALSE, depth |-> 0],
                       Len(stack) + 1)
    IN [all   |-> IF a.all = <<>> THEN <<>>
                  ELSE <<a.all[Len(a.all)]>> \o SubSeq(a.all, 1, Len(a.all) - 1),
        err   |-> a.err,
        depth |-> a.depth]

\* _toposorted_dependencies: [all, err, depth]
_toposorted_dependencies(rs, r) ==
    LET a == _dfs_deps(rs, r, [all |-> <<>>, visited |-> {}, err |-> FALSE, depth |-> 0],
                       Len(stack) + 1)
    IN [all |-> Reverse(a.all), err |-> a.err, depth |-> a.depth]

\* _TransactionInfo.update, given the sorted closure: the lists of one build
Update(rs, all) ==
    LET id_to_idx == [n \in Range(all) |->
                         CHOOSE i \in 1 .. Len(all) :
                             all[i] = n /\ \A j \in i + 1 .. Len(all) : all[j] # n]
    IN [all      |-> all,
        vers     |-> [i \in 1 .. Len(all) |-> rs[all[i]].ver],
        idx      |-> id_to_idx,
        didx     |-> [i \in 1 .. Len(all) |->
                         [j \in 1 .. Len(rs[all[i]].deps) |-> id_to_idx[rs[all[i]].deps[j]]]],
        changed  |-> [i \in 1 .. Len(all) |-> FALSE],
        to_run   |-> [i \in 1 .. Len(all) |-> FALSE]]

\* deref_weak of _TransactionInfo.update (lines 72-76, 88): its assert fails
\* when a node of the closure lists a dependent that is gone
DerefFails(rs, all) ==
    \E i \in 1 .. Len(all) : \E j \in 1 .. Len(rs[all[i]].deps) :
        rs[rs[all[i]].deps[j]].kind = "dead"

\* a variant that takes cached lists for current whatever has changed
NeverStale(rs, b) == FALSE

\* a variant that compares the root's version only
NeedsUpdateRootOnly(rs, b) ==
    rs[b.all[1]].kind = "dead" \/ rs[b.all[1]].ver # b.vers[1]

\* _TransactionInfo.needs_update
needs_update(rs, b) ==
    \E i \in 1 .. Len(b.all) : rs[b.all[i]].kind = "dead" \/ rs[b.all[i]].ver # b.vers[i]

\* a variant that flags only the first of the direct dependents
MarkFirstDependent(b, obj) ==
    IF obj \notin DOMAIN b.idx THEN b
    ELSE LET idx == b.idx[obj] IN
         IF b.changed[idx] THEN b
         ELSE [b EXCEPT !.changed[idx] = TRUE,
                        !.to_run = [j \in 1 .. Len(b.all) |->
                                       b.to_run[j] \/ (b.didx[idx] # <<>> /\ j = b.didx[idx][1])]]

\* a variant that flags every later position of the closure to run
MarkAllLater(b, obj) ==
    IF obj \notin DOMAIN b.idx THEN b
    ELSE LET idx == b.idx[obj] IN
         IF b.changed[idx] THEN b
         ELSE [b EXCEPT !.changed[idx] = TRUE,
                        !.to_run = [j \in 1 .. Len(b.all) |-> b.to_run[j] \/ j > idx]]

\* the closure mark_changed of _in_new_transaction, applied to the lists b:
\* obj's position is flagged changed and its direct dependents flagged to run
Mark(b, obj) ==
    IF obj \notin DOMAIN b.idx THEN b
    ELSE LET idx == b.idx[obj] IN
         IF b.changed[idx] THEN b
         ELSE [b EXCEPT !.changed[idx] = TRUE,
                        !.to_run = [j \in 1 .. Len(b.all) |->
                                       b.to_run[j] \/ j \in Range(b.didx[idx])]]

\* the lists a context's closure captured
ListsOf(rs, c) == rs[c.self].lists[c.slot]

\* a variant whose mark_changed reports success only when it flags the node
TrackedOnce(rs, c, obj) ==
    /\ c.k = "tx" /\ obj \in DOMAIN ListsOf(rs, c).idx
    /\ ~ListsOf(rs, c).changed[ListsOf(rs, c).idx[obj]]

\* a variant whose mark_changed reports success for every node
TrackedAlways(rs, c, obj) == c.k = "tx"

\* a variant whose mark_changed returns nothing on success
TrackedFalsy(rs, c, obj) == c.k = "tx" /\ obj \in DOMAIN ListsOf(rs, c).idx /\ FALSE

\* mark_changed(obj) as called on the active context c: truthy or falsy
Tracked(rs, c, obj) == c.k = "tx" /\ obj \in DOMAIN ListsOf(rs, c).idx

(* ---- construction and registration: value.py 125-154, 260-262 --------- *)
\* a variant that keeps one weak reference per dependent
AddDependencyOnce(rs, inp, n) ==
    IF n \in Range(rs[inp].deps) THEN rs
    ELSE [rs EXCEPT ![inp].deps = Append(@, n), ![inp].ver = @ + 1]

\* Reactive._add_dependency: inp gains a weak reference to n
_add_dependency(rs, inp, n) ==
    [rs EXCEPT ![inp].deps = Append(@, n), ![inp].ver = @ + 1]

RECURSIVE AddInputs(_, _, _)
AddInputs(rs, inputs, n) ==
    IF inputs = <<>> THEN rs
    ELSE AddInputs(_add_dependency(rs, Head(inputs), n), Tail(inputs), n)

NewReactive(kind, inputs, value, fn) ==
    [kind |-> kind, inputs |-> inputs, deps |-> <<>>, ver |-> 0, value |-> value,
     fn |-> fn, args |-> inputs, cbs |-> <<>>, lists |-> <<>>, tinfo |-> 0,
     ref |-> TRUE, arg_values |-> <<>>, event_buffer |-> <<>>]

NumListeners == SumSeq([n \in Ids |-> Len(reactives[n].cbs)])

\* a variant that assigns whatever get_value returned
AssignsAlways(v) == v = v

\* line 354: if new_value is not NoChange
Assigns(v) == v # NoChange

\* Reactive.__init__ and the fields of the subclass: the new object, with
\* itself added to the dependents of its inputs
Registered(rs, kind, inputs, value, fn) ==
    AddInputs(Append(rs, NewReactive(kind, inputs, value, fn)), inputs, Len(rs) + 1)

\* a variant that starts from NoValue whatever initial_value is
MkValueNoInitial(rs, initial, inputs, fn) ==
    LET n   == Len(rs) + 1
        rs1 == Registered(rs, "Value", inputs, NoValue, fn)
        g   == GetValue(rs1, n)
    IN IF Assigns(g.v) THEN [rs1 EXCEPT ![n].value = g.v] ELSE rs1

\* Value.__init__ with a get_value that does not raise: _on_inputs_done
\* assigns its datum unless it is NoChange
MkValue(rs, initial, inputs, fn) ==
    LET n   == Len(rs) + 1
        rs1 == Registered(rs, "Value", inputs, initial, fn)
        g   == GetValue(rs1, n)
    IN IF Assigns(g.v) THEN [rs1 EXCEPT ![n].value = g.v] ELSE rs1

\* Value(initial_value, inputs, get_value) called by the program outside any
\* transaction: the node is registered with its inputs and get_value, if
\* given, is called once; its datum (unless NoChange) is assigned in a
\* transaction of the no-dependents path, which no listener observes
NewValue(initial, inputs, fn) ==
    /\ ~Running /\ ops < MaxOps
    /\ Len(reactives) < MaxNodes
    /\ \A i \in Range(inputs) : reactives[i].ref
    /\ LET n == Len(reactives) + 1
           g == GetValue(Registered(reactives, "Value", inputs, initial, fn), n)
       IN /\ ~g.raise
          /\ reactives' = MkValue(reactives, initial, inputs, fn)
          /\ trace' = IF fn = "none" THEN <<>> ELSE <<Ev("get", n, g.v, initial)>>
    /\ exc' = "none"
    /\ ops' = ops + 1
    /\ UNCHANGED <<mark_changed, stack, late, timer, loop, fsm, output_values>>

\* Event(inputs, on_inputs_done): the reaction is not called at construction
NewEvent(inputs, fn) ==
    /\ ~Running /\ ops < MaxOps
    /\ Len(reactives) < MaxNodes
    /\ \A i \in Range(inputs) : reactives[i].ref
    /\ reactives' = Registered(reactives, "Event", inputs, NoValue, fn)
    /\ trace' = <<>>
    /\ exc' = "none"
    /\ ops' = ops + 1
    /\ UNCHANGED <<mark_changed, stack, late, timer, loop, fsm, output_values>>

\* Reactive.add_input
add_input(n, input) ==
    /\ ~Running /\ ops < MaxOps
    /\ late < MaxLateInputs
    /\ reactives[n].ref /\ reactives[input].ref
    /\ reactives' = _add_dependency([reactives EXCEPT ![n].inputs = Append(@, input)],
                                    input, n)
    /\ late' = late + 1
    /\ trace' = <<>>
    /\ exc' = "none"
    /\ ops' = ops + 1
    /\ UNCHANGED <<mark_changed, stack, timer, loop, fsm, output_values>>

\* self._on_value_changed.append(cb), self._callbacks.append(cb)
MkListener(rs, n, cb) == [rs EXCEPT ![n].cbs = Append(@, cb)]

\* Value.on_value_changed and Event.on_event
on_value_changed(n, cb) ==
    /\ ~Running /\ ops < MaxOps
    /\ NumListeners < MaxListeners
    /\ reactives[n].ref /\ (cb.act = "fwd" => reactives[cb.tgt].ref)
    /\ reactives' = MkListener(reactives, n, cb)
    /\ trace' = <<>>
    /\ exc' = "none"
    /\ ops' = ops + 1
    /\ UNCHANGED <<mark_changed, stack, late, timer, loop, fsm, output_values>>

(* ---- collection of unreferenced nodes: value.py 260-271 ---------------- *)
\* a variant that bumps the version but leaves the dead reference listed
RemoveKeepsEntry(rs, u, d) == [rs EXCEPT ![u].ver = @ + 1]

\* a variant that deletes the reference and leaves the version as it is
RemoveNoBump(rs, u, d) ==
    LET i == CHOOSE k \in 1 .. Len(rs[u].deps) :
                 rs[u].deps[k] = d /\ \A j \in 1 .. k - 1 : rs[u].deps[j] # d
    IN [rs EXCEPT ![u].deps = SubSeq(@, 1, i - 1) \o SubSeq(@, i + 1, Len(@))]

\* Reactive._remove_dependency, the callback of u's weak reference to d: the
\* reference is deleted from u._dependencies and the version incremented
_remove_dependency(rs, u, d) ==
    LET i == CHOOSE k \in 1 .. Len(rs[u].deps) :
                 rs[u].deps[k] = d /\ \A j \in 1 .. k - 1 : rs[u].deps[j] # d
    IN [rs EXCEPT ![u].deps = SubSeq(@, 1, i - 1) \o SubSeq(@, i + 1, Len(@)),
                  ![u].ver = @ + 1]

\* the callbacks of all the weak references to d, one per input it registered with
RECURSIVE RemoveFrom(_, _, _)
RemoveFrom(rs, inputs, d) ==
    IF inputs = <<>> THEN rs
    ELSE RemoveFrom(_remove_dependency(rs, Head(inputs), d), Tail(inputs), d)

\* the objects holding a strong reference to d: the nodes that have it among
\* their _inputs or in the closure of their function, and the nodes with a
\* listener that writes to it
Referrers(rs, d) ==
    {m \in 1 .. Len(rs) :
        /\ rs[m].kind # "dead"
        /\ \/ d \in Range(rs[m].inputs) \cup Range(rs[m].args)
           \/ \E j \in 1 .. Len(rs[m].cbs) : rs[m].cbs[j].tgt = d}

Garbage(rs) ==
    {d \in 1 .. Len(rs) : rs[d].kind # "dead" /\ ~rs[d].ref /\ Referrers(rs, d) = {}}

Dead ==
    [kind |-> "dead", inputs |-> <<>>, deps |-> <<>>, ver |-> 0, value |-> NoValue,
     fn |-> "none", args |-> <<>>, cbs |-> <<>>, lists |-> <<>>, tinfo |-> 0,
     ref |-> FALSE, arg_values |-> <<>>, event_buffer |-> <<>>]

\* reference counting: every object no one refers to is freed at once, its
\* weak references' callbacks run, and the references it held are released
RECURSIVE Collect(_)
Collect(rs) ==
    IF Garbage(rs) = {} THEN rs
    ELSE LET d == CHOOSE x \in Garbage(rs) : TRUE
         IN Collect([RemoveFrom(rs, rs[d].inputs, d) EXCEPT ![d] = Dead])

\* the program lets go of its reference to node n (del, or the end of a scope)
Drop(n) ==
    /\ ~Running /\ ops < MaxOps
    /\ reactives[n].ref
    /\ Cardinality({m \in Ids : ~reactives[m].ref}) < MaxDrops
    /\ reactives' = Collect([reactives EXCEPT ![n].ref = FALSE])
    /\ trace' = <<>>
    /\ exc' = "none"
    /\ ops' = ops + 1
    /\ UNCHANGED <<mark_changed, stack, late, timer, loop, fsm, output_values>>

\* a node whose object is gone while the callbacks of the weak references
\* to it (line 261) have not run yet: the references are dead, and are still
\* listed by its inputs
Uncleaned(rs) == {d \in 1 .. Len(rs) : rs[d].kind = "dead" /\ rs[d].inputs # <<>>}

\* the program lets go of its reference to node n, to which it holds a weak
\* reference of its own with a callback, made after the node's construction:
\* the interpreter clears every weak reference to n and calls the program's
\* callback first, the callbacks of the inputs' references after it
Finalize(n) ==
    /\ ~Running /\ ops < MaxOps
    /\ Uncleaned(reactives) = {}
    /\ reactives[n].ref /\ reactives[n].inputs # <<>>
    /\ Referrers(reactives, n) = {}
    /\ Cardinality({m \in Ids : ~reactives[m].ref}) < MaxDrops
    /\ reactives' = [reactives EXCEPT ![n] = [Dead EXCEPT !.inputs = reactives[n].inputs]]
    /\ trace' = <<>>
    /\ exc' = "none"
    /\ ops' = ops + 1
    /\ UNCHANGED <<mark_changed, stack, late, timer, loop, fsm, output_values>>

\* the program's callback has returned: _remove_dependency runs for every
\* input of the node, and the references the node held are released
Cleanup ==
    /\ ~Running
    /\ \E d \in Uncleaned(reactives) :
           reactives' = Collect([RemoveFrom(reactives, reactives[d].inputs, d)
                                     EXCEPT ![d] = Dead])
    /\ trace' = <<>>
    /\ exc' = "none"
    /\ UNCHANGED <<mark_changed, stack, ops, late, timer, loop, fsm, output_values>>

(* ---- calls into the engine ------------------------------------------- *)
\* a call made by running code: the stack s gains the frame fr, unless the
\* interpreter's recursion limit is reached, which raises RecursionError
Invoke(s, fr) ==
    IF Len(s) >= RecursionLimit
    THEN exc' = "RecursionError" /\ stack' = s
    ELSE exc' = exc /\ stack' = Append(s, fr)

OpOf(n) == IF reactives[n].kind = "Value" THEN "set" ELSE "emit"

\* the program assigns n.value = v, or calls n.emit(v), outside any transaction
CallSet(n, v) ==
    /\ ~Running /\ ops < MaxOps
    /\ reactives[n].kind = "Value" /\ reactives[n].ref
    /\ stack' = <<[Frame("set", n, v) EXCEPT !.t0 = 1]>>
    /\ trace' = <<Ev("call", n, v, reactives[n].value)>>
    /\ exc' = "none"
    /\ ops' = ops + 1
    /\ UNCHANGED <<reactives, mark_changed, late, timer, loop, fsm, output_values>>

CallEmit(n, v) ==
    /\ ~Running /\ ops < MaxOps
    /\ reactives[n].kind = "Event" /\ reactives[n].ref
    /\ stack' = <<[Frame("emit", n, v) EXCEPT !.t0 = 1]>>
    /\ trace' = <<Ev("call", n, v, NoValue)>>
    /\ exc' = "none"
    /\ ops' = ops + 1
    /\ UNCHANGED <<reactives, mark_changed, late, timer, loop, fsm, output_values>>

(* ---- _in_transaction and _in_new_transaction: value.py 160-258 -------- *)
\* a variant in which the setter has assigned the datum before the build
BuildRaisesAfterStore(f, tr, topo) ==
    /\ exc' = IF topo.err THEN "RecursionError" ELSE "AssertionError"
    /\ trace' = Append(tr, Ev("dfs", f.self, topo.depth - Len(stack), 0))
    /\ reactives' = IF f.op = "set" THEN [reactives EXCEPT ![f.self].value = f.val]
                    ELSE reactives
    /\ UNCHANGED <<mark_changed, stack, ops, late, timer, loop, fsm, output_values>>

\* lines 212-216 when _toposorted_dependencies raises (the recursion limit,
\* or the assert of line 43): the exception leaves _in_new_transaction before
\* anything has been assigned
BuildRaises(f, tr, topo) ==
    /\ exc' = IF topo.err THEN "RecursionError" ELSE "AssertionError"
    /\ trace' = Append(tr, Ev("dfs", f.self, topo.depth - Len(stack), 0))
    /\ UNCHANGED <<reactives, mark_changed, stack, ops, late, timer, loop, fsm, output_values>>

\* a variant that leaves the flags of the cached lists as they are
KeepFlags(b) == b

\* lines 224-226: every flag of the lists is cleared
ResetFlags(b) ==
    [b EXCEPT !.changed = [i \in 1 .. Len(b.all) |-> FALSE],
              !.to_run  = [i \in 1 .. Len(b.all) |-> FALSE]]

\* whether a frame below the top one still holds lists of node n
Held(n) == \E k \in 1 .. Len(stack) - 1 : stack[k].tx = "new" /\ stack[k].self = n

\* _in_new_transaction up to its yield, entered by the frame f with the trace tr
_in_new_transaction(f, tr) ==
    LET self == f.self
        r    == reactives[self]
    IN IF r.deps = <<>>
       THEN \* lines 195-204: the closure that always warns
            /\ mark_changed' = [k |-> "nodeps", self |-> self, slot |-> 0]
            /\ stack' = SetTop(stack, [f EXCEPT !.tx = "nodeps", !.old = mark_changed,
                                                !.pc = "body"])
            /\ trace' = tr
            /\ UNCHANGED <<reactives, exc, ops, late, timer, loop, fsm, output_values>>
       ELSE LET stale == r.tinfo = 0 \/ needs_update(reactives, r.lists[r.tinfo])
                topo  == _toposorted_dependencies(reactives, self)
            IN IF stale /\ (topo.err \/ topo.all[1] # self \/ DerefFails(reactives, topo.all))
               THEN BuildRaises(f, tr, topo)
               ELSE LET \* update() makes new lists; the ones an enclosing
                        \* transaction captured stay as they are
                        kept  == IF Held(self) THEN r.lists ELSE <<>>
                        lists == IF stale THEN Append(kept, Update(reactives, topo.all))
                                 ELSE r.lists
                        slot  == IF stale THEN Len(lists) ELSE r.tinfo
                        \* lines 224-226, then mark_changed(self) of line 244
                        b     == Mark(ResetFlags(lists[slot]), self)
                    IN /\ reactives' = [reactives EXCEPT
                                           ![self].lists = [lists EXCEPT ![slot] = b],
                                           ![self].tinfo = slot]
                       /\ mark_changed' = [k |-> "tx", self |-> self, slot |-> slot]
                       /\ stack' = SetTop(stack, [f EXCEPT !.tx = "new", !.slot = slot,
                                                           !.old = mark_changed,
                                                           !.pc = "body"])
                       /\ trace' = IF stale
                                   THEN Append(tr, Ev("dfs", self, topo.depth - Len(stack),
                                                      Len(topo.all)))
                                   ELSE tr
                       /\ UNCHANGED <<exc, ops, late, timer, loop, fsm, output_values>>

\* _in_transaction up to its yield: join the active transaction if its
\* mark_changed knows this node, else (after its warning) start a new one
EnterTransaction ==
    /\ Running /\ exc = "none"
    /\ Top.op \in {"set", "emit"} /\ Top.pc = "enter"
    /\ LET f == Top
           c == mark_changed
       IN IF Tracked(reactives, c, f.self)
          THEN /\ reactives' = [reactives EXCEPT
                                   ![c.self].lists[c.slot] = Mark(@, f.self)]
               /\ stack' = SetTop(stack, [f EXCEPT !.tx = "join", !.pc = "body"])
               /\ UNCHANGED <<mark_changed, exc, trace, ops, late, timer, loop, fsm, output_values>>
          ELSE _in_new_transaction(f, IF c.k = "none" THEN trace
                                      ELSE Append(trace, Ev("warn", c.self, f.self, 0)))

\* a variant that leaves the with block without walking the dependents
AfterListenerNoWalk(f, i) ==
    IF i <= Len(reactives[f.self].cbs) THEN [f EXCEPT !.pc = "cbs", !.i = i]
    ELSE [f EXCEPT !.pc = "exit"]

\* where a set/emit frame goes once listener i - 1 has returned
AfterListener(f, i) ==
    IF i <= Len(reactives[f.self].cbs) THEN [f EXCEPT !.pc = "cbs", !.i = i]
    ELSE IF f.tx = "new" THEN [f EXCEPT !.pc = "walk", !.i = 2]
    ELSE [f EXCEPT !.pc = "exit"]

\* a variant of the setter that returns at once when the datum is the same
StoreValueDedup ==
    /\ Running /\ exc = "none"
    /\ Top.op \in {"set", "emit"} /\ Top.pc = "body"
    /\ reactives' = IF Top.op = "set"
                    THEN [reactives EXCEPT ![Top.self].value = Top.val]
                    ELSE reactives
    /\ stack' = SetTop(stack, IF Top.op = "set" /\ reactives[Top.self].value = Top.val
                              THEN [Top EXCEPT !.pc = "exit"]
                              ELSE AfterListener(Top, 1))
    /\ trace' = Append(trace, Ev("store", Top.self, Top.val, Len(stack)))
    /\ UNCHANGED <<mark_changed, exc, ops, late, timer, loop, fsm, output_values>>

\* a variant of the setter whose loop starts at the second listener
StoreValueFromSecond ==
    /\ Running /\ exc = "none"
    /\ Top.op \in {"set", "emit"} /\ Top.pc = "body"
    /\ reactives' = IF Top.op = "set"
                    THEN [reactives EXCEPT ![Top.self].value = Top.val]
                    ELSE reactives
    /\ stack' = SetTop(stack, AfterListener(Top, 2))
    /\ trace' = Append(trace, Ev("store", Top.self, Top.val, Len(stack)))
    /\ UNCHANGED <<mark_changed, exc, ops, late, timer, loop, fsm, output_values>>

\* the body of the setter: self._value = new_value (an emit stores nothing)
StoreValue ==
    /\ Running /\ exc = "none"
    /\ Top.op \in {"set", "emit"} /\ Top.pc = "body"
    /\ reactives' = IF Top.op = "set"
                    THEN [reactives EXCEPT ![Top.self].value = Top.val]
                    ELSE reactives
    /\ stack' = SetTop(stack, AfterListener(Top, 1))
    /\ trace' = Append(trace, Ev("store", Top.self, Top.val, Len(stack)))
    /\ UNCHANGED <<mark_changed, exc, ops, late, timer, loop, fsm, output_values>>

\* for cb in self._on_value_changed: cb(new_value)
CallListener ==
    /\ Running /\ exc = "none"
    /\ Top.op \in {"set", "emit"} /\ Top.pc = "cbs"
    /\ Invoke(SetTop(stack, AfterListener(Top, Top.i + 1)),
              [Frame("cb", Top.self, Top.val) EXCEPT !.i = Top.i])
    /\ trace' = Append(trace, Ev("cb", Top.self, Top.val, Top.i))
    /\ UNCHANGED <<reactives, mark_changed, ops, late, timer, loop, fsm, output_values>>

\* the listener's code
ListenerBody ==
    /\ Running /\ exc = "none"
    /\ Top.op = "cb" /\ Top.pc = "enter"
    /\ reactives[Top.self].cbs[Top.i].act \in {"nop", "raise", "fwd"}
    /\ LET cb == reactives[Top.self].cbs[Top.i]
       IN CASE cb.act = "raise" ->
                 /\ exc' = "UserError"
                 /\ UNCHANGED stack
            [] cb.act = "fwd" ->
                 Invoke(SetTop(stack, [Top EXCEPT !.pc = "ret"]),
                        Frame(OpOf(cb.tgt), cb.tgt, Top.val))
            [] OTHER ->
                 /\ stack' = Pop(stack)
                 /\ UNCHANGED exc
    /\ UNCHANGED <<reactives, mark_changed, trace, ops, late, timer, loop, fsm, output_values>>

\* a variant that calls every flagged position, whether or not its weak
\* reference still has its object
PendingAny(f) ==
    LET b == reactives[f.self].lists[f.slot]
    IN {p \in f.i .. Len(b.all) : b.to_run[p]}

\* the positions of the captured lists the walk has still to run: those
\* flagged whose weak reference still has its object (line 255)
Pending(f) ==
    LET b == reactives[f.self].lists[f.slot]
    IN {p \in f.i .. Len(b.all) : b.to_run[p] /\ reactives[b.all[p]].kind # "dead"}

\* lines 252-256: the walk runs the next flagged position
WalkStep ==
    /\ Running /\ exc = "none"
    /\ Top.op \in {"set", "emit"} /\ Top.pc = "walk"
    /\ Pending(Top) # {}
    /\ LET p   == CHOOSE q \in Pending(Top) : \A q2 \in Pending(Top) : q <= q2
           dep == reactives[Top.self].lists[Top.slot].all[p]
       IN /\ Invoke(SetTop(stack, [Top EXCEPT !.i = p + 1, !.ran = Append(@, dep)]),
                    Frame("done", dep, NoValue))
          /\ trace' = Append(trace, Ev("run", dep, p, Len(stack)))
    /\ UNCHANGED <<reactives, mark_changed, ops, late, timer, loop, fsm, output_values>>

\* Value._on_inputs_done and Event._on_inputs_done
Settle ==
    /\ Running /\ exc = "none"
    /\ Top.op = "done" /\ Top.pc = "enter"
    /\ reactives[Top.self].fn \in ValueFns \cup EventFns
    /\ LET n == Top.self
           g == GetValue(reactives, n)
           e == Reaction(reactives, n)
       IN IF reactives[n].kind = "Value"
          THEN IF reactives[n].fn = "none"
               THEN /\ stack' = Pop(stack)
                    /\ UNCHANGED <<exc, trace>>
               ELSE /\ trace' = Append(trace, Ev("get", n, g.v, 0))
                    /\ IF g.raise
                       THEN exc' = "UserError" /\ UNCHANGED stack
                       ELSE IF ~Assigns(g.v)
                            THEN stack' = Pop(stack) /\ UNCHANGED exc
                            ELSE Invoke(SetTop(stack, [Top EXCEPT !.pc = "ret"]),
                                        Frame("set", n, g.v))
          ELSE /\ UNCHANGED trace
               /\ IF e.raise
                  THEN exc' = "UserError" /\ UNCHANGED stack
                  ELSE IF Top.i > Len(e.out)
                       THEN stack' = Pop(stack) /\ UNCHANGED exc
                       ELSE Invoke(SetTop(stack, [Top EXCEPT !.i = @ + 1]),
                                   Frame("emit", n, e.out[Top.i]))
    /\ UNCHANGED <<reactives, mark_changed, ops, late, timer, loop, fsm, output_values>>

\* a listener or a settle step returns to its caller
Return ==
    /\ Running /\ exc = "none"
    /\ Top.op \in {"cb", "done"} /\ Top.pc = "ret"
    /\ stack' = Pop(stack)
    /\ UNCHANGED <<reactives, mark_changed, exc, trace, ops, late, timer, loop, fsm, output_values>>

\* lists no node and no frame refers to any more are dropped when the
\* outermost call returns, which leaves each node its current lists at slot 1
Release(rs, s) ==
    IF s # <<>> THEN rs
    ELSE [n \in 1 .. Len(rs) |->
             IF rs[n].tinfo = 0 THEN rs[n]
             ELSE [rs[n] EXCEPT !.lists = <<rs[n].lists[rs[n].tinfo]>>, !.tinfo = 1]]

\* a variant without the finally: the context is restored on success only
RestoreOnSuccess(f) ==
    IF f.tx \in {"new", "nodeps"} /\ exc = "none" THEN f.old ELSE mark_changed

\* a variant that leaves the context as the with block made it
RestoreNothing(f) == mark_changed

\* what leaving the with block does to the context: the finally of lines
\* 208-209 and 257-258 restores the saved one; a joined call installed none
Restore(f) == IF f.tx \in {"new", "nodeps"} THEN f.old ELSE mark_changed

\* the end of the with block of a set/emit whose listeners and walk are done
ExitTransaction ==
    /\ Running /\ exc = "none"
    /\ Top.op \in {"set", "emit"}
    /\ Top.pc = "exit" \/ (Top.pc = "walk" /\ Pending(Top) = {})
    /\ mark_changed' = Restore(Top)
    /\ stack' = Pop(stack)
    /\ reactives' = Release(reactives, Pop(stack))
    /\ UNCHANGED <<exc, trace, ops, late, timer, loop, fsm, output_values>>

\* an exception leaves the innermost frame
Unwind ==
    /\ Running /\ exc # "none"
    /\ mark_changed' = Restore(Top)
    /\ stack' = Pop(stack)
    /\ reactives' = Release(reactives, Pop(stack))
    /\ UNCHANGED <<exc, trace, ops, late, timer, loop, fsm, output_values>>

(* ---- fn: function_wrappers.py 14-171 ---------------------------------- *)
\* a tuple of arguments as one number: digit i is argument i plus one, so
\* that NoValue is 0 (the result of passthrough, `return args`, as a datum)
RECURSIVE Tuple(_)
Tuple(values) ==
    IF values = <<>> THEN 0
    ELSE ((Head(values) + 1) % (MaxPayload + 2)) + (MaxPayload + 2) * Tuple(Tail(values))

RECURSIVE Item(_, _)
Item(t, i) == IF i = 1 THEN (t % (MaxPayload + 2)) - 1 ELSE Item(t \div (MaxPayload + 2), i - 1)

\* the wrapped function f(*arg_values): a datum, NoChange, or "raise"
\*   "passthrough" : returns its arguments (example of test_mixed)
\*   "nochange"    : NoChange if an argument is MaxPayload, else its
\*                   arguments (as f of test_nochange_event)
\*   "negate"      : computes with its first argument, which raises
\*                   TypeError when that is NoValue, else its arguments
WrappedFns == {"passthrough", "nochange", "negate"}

CallF(fn, values) ==
    CASE fn = "nochange" -> [raise |-> FALSE,
                             v |-> IF MaxPayload \in Range(values) THEN NoChange
                                   ELSE Tuple(values)]
      [] fn = "negate"   -> [raise |-> values[1] = NoValue, v |-> Tuple(values)]
      [] OTHER           -> [raise |-> FALSE, v |-> Tuple(values)]

\* handle_arg for the Reactive argument at position key of the call that
\* makes node res: the initial entry of arg_values
InitialArg(rs, reactive) ==
    IF rs[reactive].kind = "Value" THEN rs[reactive].value ELSE NoValue

\* handle_arg: the listener registered on the argument; the one on a Value
\* keeps values[key] at its datum, the one on an Event appends to
\* event_buffer
handle_arg(rs, res, key, reactive) ==
    MkListener(rs, reactive,
               [act |-> IF rs[reactive].kind = "Value" THEN "arg" ELSE "buf",
                tgt |-> res, key |-> key])

RECURSIVE HandleArgs(_, _, _, _)
HandleArgs(rs, res, key, args) ==
    IF key > Len(args) THEN rs
    ELSE HandleArgs(handle_arg(rs, res, key, args[key]), res, key + 1, args)

\* wrapped(*args) with Reactive arguments of which one at least is an Event
\* (has_events): the listeners, then Event(inputs, on_inputs_done)
wrapped(rs, args, fn) ==
    LET res == Len(rs) + 1
        rs1 == Registered(HandleArgs(rs, res, 1, args), "Event", args, NoValue, fn)
    IN [rs1 EXCEPT ![res].arg_values = [i \in 1 .. Len(args) |-> InitialArg(rs, args[i])]]

\* event_to_value (value.py 522-530): a Value with the input source_event,
\* assigned by a listener on it
event_to_value(rs, source_event) ==
    MkListener(Registered(rs, "Value", <<source_event>>, NoValue, "none"), source_event,
               [act |-> "fwd", tgt |-> Len(rs) + 1, key |-> 0])

\* the two listeners of handle_arg (lines 131-133 and 139-141)
ArgListener ==
    /\ Running /\ exc = "none"
    /\ Top.op = "cb" /\ Top.pc = "enter"
    /\ reactives[Top.self].cbs[Top.i].act \in {"arg", "buf"}
    /\ LET cb == reactives[Top.self].cbs[Top.i]
       IN reactives' =
              IF cb.act = "arg"
              THEN [reactives EXCEPT ![cb.tgt].arg_values[cb.key] = Top.val]
              ELSE [reactives EXCEPT ![cb.tgt].event_buffer =
                                         Append(@, [key |-> cb.key, value |-> Top.val])]
    /\ stack' = Pop(stack)
    /\ UNCHANGED <<mark_changed, exc, trace, ops, late, timer, loop, fsm, output_values>>

\* on_inputs_done of lines 151-161, one step per turn of its loop: the turn
\* Top.i first ends the turn before it (values[key] = NoValue, line 159),
\* then takes entry Top.i of event_buffer, which is read anew at every turn
\* as the list iterator does; after the last entry the buffer is cleared.
\* An exception leaves the loop where it is: nothing is reset or cleared
on_inputs_done ==
    /\ Running /\ exc = "none"
    /\ Top.op = "done" /\ Top.pc = "enter"
    /\ reactives[Top.self].fn \in WrappedFns
    /\ LET n      == Top.self
           r      == reactives[n]
           before == IF Top.i = 1 THEN r.arg_values
                     ELSE [r.arg_values EXCEPT ![r.event_buffer[Top.i - 1].key] = NoValue]
       IN IF Top.i > Len(r.event_buffer)
          THEN /\ reactives' = [reactives EXCEPT ![n].arg_values = before,
                                                 ![n].event_buffer = <<>>]
               /\ stack' = Pop(stack)
               /\ UNCHANGED <<exc, trace>>
          ELSE LET entry  == r.event_buffer[Top.i]
                   values == [before EXCEPT ![entry.key] = entry.value]
                   ret    == CallF(r.fn, values)
               IN /\ reactives' = [reactives EXCEPT ![n].arg_values = values]
                  /\ trace' = Append(trace, Ev("f", n, Tuple(values), entry.key))
                  /\ IF ret.raise
                     THEN exc' = "TypeError" /\ UNCHANGED stack
                     ELSE IF ret.v = NoChange
                          THEN stack' = SetTop(stack, [Top EXCEPT !.i = @ + 1])
                               /\ UNCHANGED exc
                          ELSE Invoke(SetTop(stack, [Top EXCEPT !.i = @ + 1]),
                                      Frame("emit", n, ret.v))
    /\ UNCHANGED <<mark_changed, ops, late, timer, loop, fsm, output_values>>

(* ---- emit_at: temporal.py 91-147 --------------------------------------- *)
\* the data of the time Value: None, or the pair (time, emit) as one number,
\* where emit is None or a payload; a bare time is the pair (time, None), as
\* lines 126-127 make it
Pair(time, emit) == time * (MaxPayload + 1) + (IF emit = None THEN 0 ELSE emit)

Configurations ==
    {None} \cup {Pair(time, emit) : time \in 0 .. MaxTime, emit \in {None} \cup (1 .. MaxPayload)}

\* line 129: new_time, new_emit = value
new_time(value) == IF value = None THEN None ELSE value \div (MaxPayload + 1)

new_emit(value) ==
    IF value = None \/ value % (MaxPayload + 1) = 0 THEN None
    ELSE value % (MaxPayload + 1)

\* loop.call_at(when, callback): a new handle, the last of the loop's; past
\* only observes whether the time had passed when the call was made
call_at(lp, when) ==
    [lp EXCEPT !.handles = Append(@, [when |-> when, cancelled |-> FALSE, ran |-> FALSE,
                                      past |-> when <= lp.now])]

\* a variant of setup_timer that arms no timer for a time that has passed
SetupTimerFutureOnly(tm, lp, value) ==
    IF <<new_time(value), new_emit(value)>> = <<tm.timer_time, tm.timer_emit>>
    THEN [timer |-> tm, loop |-> lp]
    ELSE LET cancelled == IF tm.timer # None
                          THEN [lp EXCEPT !.handles[tm.timer].cancelled = TRUE]
                          ELSE lp
             arms      == new_time(value) # None /\ new_time(value) > lp.now
             armed     == IF arms THEN call_at(cancelled, new_time(value)) ELSE cancelled
         IN [timer |-> [tm EXCEPT !.timer = IF arms THEN Len(armed.handles) ELSE None,
                                  !.timer_time = new_time(value),
                                  !.timer_emit = new_emit(value)],
             loop  |-> armed]

\* a variant of setup_timer that does not cancel the timer it replaces
SetupTimerNoCancel(tm, lp, value) ==
    IF <<new_time(value), new_emit(value)>> = <<tm.timer_time, tm.timer_emit>>
    THEN [timer |-> tm, loop |-> lp]
    ELSE LET armed == IF new_time(value) # None THEN call_at(lp, new_time(value)) ELSE lp
         IN [timer |-> [tm EXCEPT !.timer = IF new_time(value) # None
                                            THEN Len(armed.handles) ELSE None,
                                  !.timer_time = new_time(value),
                                  !.timer_emit = new_emit(value)],
             loop  |-> armed]

\* setup_timer (lines 124-140) on the nonlocals tm and the loop lp: the
\* nonlocals and the loop it leaves
setup_timer(tm, lp, value) ==
    IF <<new_time(value), new_emit(value)>> = <<tm.timer_time, tm.timer_emit>>
    THEN [timer |-> tm, loop |-> lp]
    ELSE LET cancelled == IF tm.timer # None
                          THEN [lp EXCEPT !.handles[tm.timer].cancelled = TRUE]
                          ELSE lp
             armed     == IF new_time(value) # None
                          THEN call_at(cancelled, new_time(value))
                          ELSE cancelled
         IN [timer |-> [tm EXCEPT !.timer = IF new_time(value) # None
                                            THEN Len(armed.handles) ELSE None,
                                  !.timer_time = new_time(value),
                                  !.timer_emit = new_emit(value)],
             loop  |-> armed]

\* emit_at(time) for the Value time: the Event, the first setup_timer and
\* its registration as a listener of time
emit_at(rs, time) ==
    LET event == Len(rs) + 1
        first == setup_timer([NoTimer EXCEPT !.event = event], IdleLoop, rs[time].value)
    IN [reactives |-> MkListener(Registered(rs, "Event", <<>>, NoValue, "none"), time,
                                 [act |-> "setup_timer", tgt |-> event, key |-> 0]),
        timer     |-> first.timer,
        loop      |-> first.loop]

\* a variant of time's listener that, for a time that has passed, emits in
\* the call instead of leaving it to the loop
SetupTimerListenerImmediate ==
    /\ Running /\ exc = "none"
    /\ Top.op = "cb" /\ Top.pc = "enter"
    /\ reactives[Top.self].cbs[Top.i].act = "setup_timer"
    /\ IF new_time(Top.val) # None /\ new_time(Top.val) <= loop.now
       THEN /\ Invoke(SetTop(stack, [Top EXCEPT !.pc = "ret"]),
                      Frame("emit", timer.event, new_emit(Top.val)))
            /\ UNCHANGED <<timer, loop>>
       ELSE /\ timer' = setup_timer(timer, loop, Top.val).timer
            /\ loop' = setup_timer(timer, loop, Top.val).loop
            /\ stack' = Pop(stack)
            /\ exc' = exc
    /\ UNCHANGED <<reactives, mark_changed, trace, ops, late, fsm, output_values>>

\* time's listener calls setup_timer(new_value)
SetupTimerListener ==
    /\ Running /\ exc = "none"
    /\ Top.op = "cb" /\ Top.pc = "enter"
    /\ reactives[Top.self].cbs[Top.i].act = "setup_timer"
    /\ timer' = setup_timer(timer, loop, Top.val).timer
    /\ loop' = setup_timer(timer, loop, Top.val).loop
    /\ stack' = Pop(stack)
    /\ UNCHANGED <<reactives, mark_changed, exc, trace, ops, late, fsm, output_values>>

\* the handles the loop has still to run
Scheduled(lp) ==
    {h \in 1 .. Len(lp.handles) : ~lp.handles[h].cancelled /\ ~lp.handles[h].ran}

\* a variant of on_timer that keeps the nonlocals as they are
OnTimerKeepsConfiguration ==
    /\ ~Running
    /\ \E h \in Scheduled(loop) :
           /\ loop.handles[h].when <= loop.now
           /\ \A g \in Scheduled(loop) : loop.handles[h].when <= loop.handles[g].when
           /\ loop' = [loop EXCEPT !.handles[h].ran = TRUE]
           /\ trace' = <<Ev("call", timer.event, timer.timer_emit, h)>>
    /\ stack' = <<[Frame("emit", timer.event, timer.timer_emit) EXCEPT !.t0 = 1]>>
    /\ exc' = "none"
    /\ UNCHANGED <<reactives, mark_changed, ops, late, timer, fsm, output_values>>

\* the loop, between two callbacks, runs a handle that is due and not
\* cancelled, the earliest first: on_timer (lines 116-122) clears the
\* nonlocals and calls event.emit(to_emit)
on_timer ==
    /\ ~Running
    /\ \E h \in Scheduled(loop) :
           /\ loop.handles[h].when <= loop.now
           /\ \A g \in Scheduled(loop) : loop.handles[h].when <= loop.handles[g].when
           /\ loop' = [loop EXCEPT !.handles[h].ran = TRUE]
           /\ trace' = <<Ev("call", timer.event, timer.timer_emit, h)>>
    /\ timer' = [timer EXCEPT !.timer = None, !.timer_time = None, !.timer_emit = None]
    /\ stack' = <<[Frame("emit", timer.event, timer.timer_emit) EXCEPT !.t0 = 1]>>
    /\ exc' = "none"
    /\ UNCHANGED <<reactives, mark_changed, ops, late, fsm, output_values>>

\* loop.time() moves on
Tick ==
    /\ ~Running
    /\ loop.now < MaxTime
    /\ loop' = [loop EXCEPT !.now = @ + 1]
    /\ UNCHANGED <<reactives, mark_changed, stack, exc, trace, ops, late, timer, fsm, output_values>>

(* ---- FSM: fsm.py 8-137 ------------------------------------------------- *)
\* the states get_next_state can return
FsmStates == 1 .. MaxStates

\* get_timeout_time (lines 60-62) of the Value n made over timeout_length
get_timeout_time(rs, n) ==
    IF rs[rs[n].args[1]].value = None THEN None
    ELSE Pair(loop.now + rs[rs[n].args[1]].value, None)

\* Value._on_inputs_done of timeout_time: get_timeout_time never returns
\* NoChange, so its datum is assigned
SettleTimeoutTime ==
    /\ Running /\ exc = "none"
    /\ Top.op = "done" /\ Top.pc = "enter"
    /\ reactives[Top.self].fn = "get_timeout_time"
    /\ trace' = Append(trace, Ev("get", Top.self, get_timeout_time(reactives, Top.self), 0))
    /\ Invoke(SetTop(stack, [Top EXCEPT !.pc = "ret"]),
              Frame("set", Top.self, get_timeout_time(reactives, Top.self)))
    /\ UNCHANGED <<reactives, mark_changed, ops, late, timer, loop, fsm, output_values>>

\* lines 78-92: inputs_list gets the datum of a Value (kept as a list of
\* one) or an empty list for an Event, and the input a listener
RECURSIVE FsmInputs(_, _, _)
FsmInputs(rs, inputs, i) ==
    IF i > Len(inputs) THEN rs
    ELSE FsmInputs(MkListener(rs, inputs[i],
                              [act |-> IF rs[inputs[i]].kind = "Value"
                                       THEN "update_value" ELSE "update_event",
                               tgt |-> 0, key |-> i]),
                   inputs, i + 1)

\* FSM.__init__ up to the call of Value.__init__ for self.state (line 135),
\* whose first step, Reactive.__init__, registers the state with its inputs:
\* what is left of the constructor is get_state, called by line 306 of
\* value.py, and line 137
FSM(rs, inputs) ==
    LET timeout_length == Len(rs) + 1
        timeout_time   == Len(rs) + 2
        made           == emit_at(Registered(MkValue(rs, None, <<>>, "none"), "Value",
                                             <<timeout_length>>, None, "get_timeout_time"),
                                  timeout_time)
        timeout_event  == made.timer.event
        listening      == MkListener(FsmInputs(made.reactives, inputs, 1), timeout_event,
                                     [act |-> "on_timeout", tgt |-> 0, key |-> 0])
    IN [reactives |-> Registered(listening, "Value", inputs \o <<timeout_event>>,
                                 NoValue, "get_state"),
        timer     |-> made.timer,
        loop      |-> made.loop,
        fsm       |-> [state |-> Len(listening) + 1,
                       timeout_length |-> timeout_length,
                       timeout_time |-> timeout_time,
                       timeout_event |-> timeout_event,
                       inputs |-> inputs,
                       inputs_list |-> [i \in 1 .. Len(inputs) |->
                                           IF rs[inputs[i]].kind = "Value"
                                           THEN <<rs[inputs[i]].value>> ELSE <<>>],
                       handling_timeout |-> FALSE,
                       state_value |-> START]]

\* update_value, update_event (lines 76-80) and on_timeout (lines 98-101)
FsmListener ==
    /\ Running /\ exc = "none"
    /\ Top.op = "cb" /\ Top.pc = "enter"
    /\ reactives[Top.self].cbs[Top.i].act \in {"update_value", "update_event", "on_timeout"}
    /\ LET cb == reactives[Top.self].cbs[Top.i]
       IN fsm' = CASE cb.act = "update_value" ->
                        [fsm EXCEPT !.inputs_list[cb.key] = <<Top.val>>]
                   [] cb.act = "update_event" ->
                        [fsm EXCEPT !.inputs_list[cb.key] = Append(@, Top.val)]
                   [] OTHER ->
                        [fsm EXCEPT !.handling_timeout = TRUE]
    /\ stack' = Pop(stack)
    /\ UNCHANGED <<reactives, mark_changed, exc, trace, ops, late, timer, loop, output_values>>

\* a variant of lines 109-115 that does not look at handling_timeout
CurrentTimeoutNoFlag ==
    IF reactives[fsm.timeout_time].value = None THEN None
    ELSE new_time(reactives[fsm.timeout_time].value) - loop.now

\* lines 109-115
current_timeout ==
    IF fsm.handling_timeout THEN 0
    ELSE IF reactives[fsm.timeout_time].value = None THEN None
    ELSE new_time(reactives[fsm.timeout_time].value) - loop.now

\* what the user's get_next_state can do when called with a state and a
\* timeout: raise, or return any state with no timeout, with the timeout it
\* was given or with a timeout of TimeoutLen
get_next_state(state, timeout) ==
    {[raise |-> TRUE, state |-> state, timeout |-> timeout]}
        \cup {[raise |-> FALSE, state |-> next_state, timeout |-> next_timeout] :
                  next_state \in FsmStates, next_timeout \in {None, TimeoutLen, timeout}}

\* a variant of the finally that clears nothing
FinallyNothing(f) == f

\* lines 121-124, the finally of get_state
Finally(f) ==
    [f EXCEPT !.handling_timeout = FALSE,
              !.inputs_list = [i \in 1 .. Len(f.inputs) |->
                                  IF reactives[f.inputs[i]].kind = "Event" THEN <<>>
                                  ELSE f.inputs_list[i]]]

\* a variant of line 129 that takes every state for a new one
StateDiffersAlways(next_state, state_value) == next_state = next_state

\* line 129: if next_state != state_value
StateDiffers(next_state, state_value) == next_state # state_value

\* get_state up to line 127: the call of get_next_state, the finally, and
\* the assignment of timeout_length if the timeout returned is another.
\* The trace gets "expired" if handling_timeout was set, the call ("f": the
\* state and the timeout given) and its outcome ("ret": the state and the
\* timeout returned, None for the state if it raised)
get_state ==
    /\ Running /\ exc = "none"
    /\ Top.op = "done" /\ Top.pc = "enter"
    /\ reactives[Top.self].fn = "get_state"
    /\ \E ret \in get_next_state(fsm.state_value, current_timeout) :
           /\ trace' = trace \o
                  (IF fsm.handling_timeout THEN <<Ev("expired", Top.self, 0, 0)>> ELSE <<>>) \o
                  <<Ev("f", Top.self, fsm.state_value, current_timeout),
                    Ev("ret", Top.self, IF ret.raise THEN None ELSE ret.state, ret.timeout)>>
           /\ IF ret.raise
              THEN exc' = "UserError" /\ UNCHANGED stack
              ELSE IF ret.timeout # current_timeout
                   THEN Invoke(SetTop(stack, [Top EXCEPT !.pc = "state", !.val = ret.state]),
                               Frame("set", fsm.timeout_length, ret.timeout))
                   ELSE /\ stack' = SetTop(stack, [Top EXCEPT !.pc = "state",
                                                              !.val = ret.state])
                        /\ exc' = exc
    /\ fsm' = Finally(fsm)
    /\ UNCHANGED <<reactives, mark_changed, ops, late, timer, loop, output_values>>

\* get_state from line 129, and Value._on_inputs_done with what it returns:
\* a new state is kept and assigned, NoChange assigns nothing
get_state_return ==
    /\ Running /\ exc = "none"
    /\ Top.op = "done" /\ Top.pc = "state"
    /\ IF StateDiffers(Top.val, fsm.state_value)
       THEN /\ fsm' = [fsm EXCEPT !.state_value = Top.val]
            /\ Invoke(SetTop(stack, [Top EXCEPT !.pc = "ret"]),
                      Frame("set", Top.self, Top.val))
       ELSE /\ stack' = Pop(stack)
            /\ UNCHANGED <<exc, fsm>>
    /\ UNCHANGED <<reactives, mark_changed, trace, ops, late, timer, loop, output_values>>

\* the constructor has returned: line 137 has been run
Constructed == fsm.state \in Range(reactives[fsm.timeout_length].inputs)

\* the end of the constructor, self.timeout_length.add_input(self.state)
\* (line 137), and the program's registration of a listener of the state
FsmInitEnd ==
    /\ ~Running /\ exc = "none"
    /\ ~Constructed
    /\ reactives' = MkListener(
                        _add_dependency([reactives EXCEPT ![fsm.timeout_length].inputs =
                                                              Append(@, fsm.state)],
                                        fsm.state, fsm.timeout_length),
                        fsm.state, [act |-> "nop", tgt |-> 0, key |-> 0])
    /\ trace' = <<>>
    /\ UNCHANGED <<mark_changed, stack, exc, ops, late, timer, loop, fsm, output_values>>

(* ---- window: general.py 15-46 ----------------------------------------- *)
\* a variant of limit_values that pops the newest elements
LimitValuesNewest(values, num_values_value) ==
    IF Len(values) > num_values_value
    THEN SubSeq(values, 1, num_values_value)
    ELSE values

\* lines 27-30: while len(output_values) > num_values_value:
\* output_values.pop(0); the list afterwards (num_values_value >= 0)
limit_values(values, num_values_value) ==
    IF Len(values) > num_values_value
    THEN SubSeq(values, Len(values) - num_values_value + 1, Len(values))
    ELSE values

\* lines 32-34: output_values.append(new_value);
\* limit_values(num_values.value)
add_value(values, new_value, num_values_value) ==
    limit_values(Append(values, new_value), num_values_value)

\* window(source_value, num_values): limit_values is registered on
\* num_values, add_value on the source (a Value's current value is appended
\* first, without a limit), and the result is a Value of both whose
\* get_value returns a copy of the list; the copy is a Tuple
window(rs, source_value, num_values) ==
    LET first == IF rs[source_value].kind = "Value"
                 THEN <<rs[source_value].value>> ELSE <<>>
        rs1   == MkListener(rs, num_values,
                            [act |-> "limit_values", tgt |-> num_values, key |-> 0])
        rs2   == MkListener(rs1, source_value,
                            [act |-> "add_value", tgt |-> num_values, key |-> 0])
        rs3   == Registered(rs2, "Value", <<source_value, num_values>>, NoValue, "window")
    IN [reactives     |-> [rs3 EXCEPT ![Len(rs3)].value = Tuple(first)],
        output_values |-> first]

\* the listeners limit_values (called with the new num_values) and
\* add_value (called with the source's new value or event)
WindowListener ==
    /\ Running /\ exc = "none"
    /\ Top.op = "cb" /\ Top.pc = "enter"
    /\ reactives[Top.self].cbs[Top.i].act \in {"limit_values", "add_value"}
    /\ LET cb == reactives[Top.self].cbs[Top.i]
       IN output_values' =
              IF cb.act = "limit_values"
              THEN limit_values(output_values, Top.val)
              ELSE add_value(output_values, Top.val, reactives[cb.tgt].value)
    /\ stack' = Pop(stack)
    /\ UNCHANGED <<reactives, mark_changed, exc, trace, ops, late, timer, loop, fsm>>

\* Value._on_inputs_done of the window Value: get_value is
\* lambda: output_values.copy(), which is assigned
SettleWindow ==
    /\ Running /\ exc = "none"
    /\ Top.op = "done" /\ Top.pc = "enter"
    /\ reactives[Top.self].fn = "window"
    /\ trace' = Append(trace, Ev("get", Top.self, Tuple(output_values),
                                 reactives[Top.self].value))
    /\ Invoke(SetTop(stack, [Top EXCEPT !.pc = "ret"]),
              Frame("set", Top.self, Tuple(output_values)))
    /\ UNCHANGED <<reactives, mark_changed, ops, late, timer, loop, fsm, output_values>>

(* ---- listeners that test, let go of and construct nodes ---------------- *)
\* a listener that assigns its argument to tgt unless tgt holds it already:
\* if tgt.value != v: tgt.value = v
ListenerIfDiffers ==
    /\ Running /\ exc = "none"
    /\ Top.op = "cb" /\ Top.pc = "enter"
    /\ reactives[Top.self].cbs[Top.i].act = "differs"
    /\ LET cb == reactives[Top.self].cbs[Top.i]
       IN IF reactives[cb.tgt].value # Top.val
          THEN Invoke(SetTop(stack, [Top EXCEPT !.pc = "ret"]),
                      Frame("set", cb.tgt, Top.val))
          ELSE /\ stack' = Pop(stack)
               /\ UNCHANGED exc
    /\ UNCHANGED <<reactives, mark_changed, trace, ops, late, timer, loop, fsm, output_values>>

\* a listener that lets go of the program's only reference to a node, which
\* it finds in a container by its key: held.pop(key, None); the node, if no
\* other object refers to it, is freed there and then
ListenerDrop ==
    /\ Running /\ exc = "none"
    /\ Top.op = "cb" /\ Top.pc = "enter"
    /\ reactives[Top.self].cbs[Top.i].act = "drop"
    /\ LET cb == reactives[Top.self].cbs[Top.i]
       IN reactives' = Collect([reactives EXCEPT ![cb.key].ref = FALSE])
    /\ stack' = Pop(stack)
    /\ UNCHANGED <<mark_changed, exc, trace, ops, late, timer, loop, fsm, output_values>>

\* a listener that constructs a Value with a recompute function and keeps
\* it: made.append(Value(inputs=[tgt], get_value=...)), or inputs=[] when
\* tgt is 0. Reactive.__init__ registers the object with its inputs and
\* Value.__init__ (line 306) calls its _on_inputs_done
ListenerMake ==
    /\ Running /\ exc = "none"
    /\ Top.op = "cb" /\ Top.pc = "enter"
    /\ reactives[Top.self].cbs[Top.i].act = "make"
    /\ LET cb     == reactives[Top.self].cbs[Top.i]
           n      == Len(reactives) + 1
           inputs == IF cb.tgt = 0 THEN <<>> ELSE <<cb.tgt>>
       IN /\ reactives' = Registered(reactives, "Value", inputs, NoValue, "sum")
          /\ Invoke(SetTop(stack, [Top EXCEPT !.pc = "ret"]),
                    [Frame("done", Top.self, NoValue) EXCEPT !.self = n, !.was = NoValue])
          /\ trace' = Append(trace, Ev("new", n, NoValue, Len(stack)))
    /\ UNCHANGED <<mark_changed, ops, late, timer, loop, fsm, output_values>>

(* ---- the program around the engine ------------------------------------ *)
\* the graph test_missing_dep[has_dep=True] has constructed when it comes to
\* its assignment: initial (1) with its dependent hanging_dep (2) and a
\* listener that assigns missing_input (3), which has the dependent
\* missing_input_dep (4)
TestMissingDep ==
    LET initial           == MkValue(<<>>, 0, <<>>, "none")
        hanging_dep       == MkValue(initial, NoValue, <<1>>, "sum")
        missing_input     == MkValue(hanging_dep, hanging_dep[1].value, <<>>, "none")
        initial_changed   == MkListener(missing_input, 1, [act |-> "fwd", tgt |-> 3, key |-> 0])
    IN MkValue(initial_changed, NoValue, <<3>>, "sum")

\* the program starts with nothing constructed, or with the graph of
\* test_missing_dep and three operations left to run on it
Init ==
    /\ reactives \in {<<>>, TestMissingDep}
    /\ mark_changed = NoContext
    /\ stack = <<>>
    /\ exc = "none"
    /\ trace = <<>>
    /\ ops = IF reactives = <<>> THEN 0 ELSE MaxOps - 3
    /\ late = 0
    /\ timer = NoTimer
    /\ loop = IdleLoop
    /\ fsm = NoFsm
    /\ output_values = <<>>

Construct ==
    \/ NewValue(NoValue, <<>>, "none")
    \/ \E inputs \in IncSeqs(Len(reactives), MaxInputs), fn \in ValueFns,
             initial \in {NoValue} \cup Data :
          inputs # <<>> /\ NewValue(initial, inputs, fn)
    \/ NewEvent(<<>>, "none")
    \/ \E inputs \in IncSeqs(Len(reactives), MaxInputs), fn \in EventFns :
          inputs # <<>> /\ NewEvent(inputs, fn)
    \/ \E n \in Ids, input \in Ids : input # n /\ add_input(n, input)
    \/ \E n \in Ids, cb \in Listeners : cb.tgt # n /\ on_value_changed(n, cb)

Next ==
    \/ Construct
    \/ \E n \in Ids : Drop(n)
    \/ \E n \in Ids, v \in Data : CallSet(n, v)
    \/ \E n \in Ids, v \in Data : CallEmit(n, v)
    \/ EnterTransaction
    \/ StoreValue
    \/ CallListener
    \/ ListenerBody
    \/ WalkStep
    \/ Settle
    \/ Return
    \/ ExitTransaction
    \/ Unwind

Spec == Init /\ [][Next]_vars

(* ---- programs with a weak-reference callback of their own ------------- *)
\* as Init with nothing constructed; the program holds weak references with
\* callbacks to the nodes it makes, and a callback assigns or emits
InitFinalize ==
    /\ reactives = <<>>
    /\ mark_changed = NoContext
    /\ stack = <<>>
    /\ exc = "none"
    /\ trace = <<>>
    /\ ops = 1
    /\ late = 0
    /\ timer = NoTimer
    /\ loop = IdleLoop
    /\ fsm = NoFsm
    /\ output_values = <<>>

NextFinalize ==
    \/ Uncleaned(reactives) = {} /\ Construct
    \/ \E n \in Ids : Uncleaned(reactives) = {} /\ Drop(n)
    \/ \E n \in Ids : Finalize(n)
    \/ Cleanup
    \/ \E n \in Ids, v \in Data : CallSet(n, v)
    \/ \E n \in Ids, v \in Data : CallEmit(n, v)
    \/ EnterTransaction
    \/ StoreValue
    \/ CallListener
    \/ ListenerBody
    \/ WalkStep
    \/ Settle
    \/ Return
    \/ ExitTransaction
    \/ Unwind

SpecFinalize == InitFinalize /\ [][NextFinalize]_vars

(* ---- programs whose listeners test, let go of and construct nodes ----- *)
\* R = Value(0); A = Value(0, inputs=[R]); B = Value(inputs=[A],
\* get_value=...); X = Value(0); R has the listeners "A.value = v unless
\* equal" and "X.value = v unless equal", X the listener "R.value = v"
TestReentrant ==
    LET R  == MkValue(<<>>, 0, <<>>, "none")
        A  == MkValue(R, 0, <<1>>, "none")
        B  == MkValue(A, NoValue, <<2>>, "sum")
        X  == MkValue(B, 0, <<>>, "none")
        l1 == MkListener(X, 1, [act |-> "differs", tgt |-> 2, key |-> 0])
        l2 == MkListener(l1, 1, [act |-> "differs", tgt |-> 4, key |-> 0])
    IN MkListener(l2, 4, [act |-> "fwd", tgt |-> 1, key |-> 0])

\* R = Value(0); held = {k: Value(inputs=[R], get_value=...) for k in "ACD"};
\* R has the listener "held.pop(key, None)"
TestCollected(key) ==
    LET R == MkValue(<<>>, 0, <<>>, "none")
        A == MkValue(R, NoValue, <<1>>, "sum")
        C == MkValue(A, NoValue, <<1>>, "sum")
        D == MkValue(C, NoValue, <<1>>, "sum")
    IN MkListener(D, 1, [act |-> "drop", tgt |-> 0, key |-> key])

\* R = Value(0); A = Value(0, inputs=[R]); B = Value(inputs=[A],
\* get_value=...); R has the listeners "made.append(Value(inputs=...,
\* get_value=...))" and "A.value = v"
TestConstructed(input) ==
    LET R  == MkValue(<<>>, 0, <<>>, "none")
        A  == MkValue(R, 0, <<1>>, "none")
        B  == MkValue(A, NoValue, <<2>>, "sum")
        l1 == MkListener(B, 1, [act |-> "make", tgt |-> input, key |-> 0])
    IN MkListener(l1, 1, [act |-> "fwd", tgt |-> 2, key |-> 0])

\* the program has constructed one of the graphs and goes on to make two
\* assignments
InitCallbacks ==
    /\ reactives \in {TestReentrant} \cup {TestCollected(key) : key \in 2 .. 4}
                                     \cup {TestConstructed(input) : input \in 0 .. 1}
    /\ mark_changed = NoContext
    /\ stack = <<>>
    /\ exc = "none"
    /\ trace = <<>>
    /\ ops = MaxOps - 2
    /\ late = 0
    /\ timer = NoTimer
    /\ loop = IdleLoop
    /\ fsm = NoFsm
    /\ output_values = <<>>

NextCallbacks ==
    \/ \E n \in Ids, v \in {0} \cup Data : CallSet(n, v)
    \/ EnterTransaction
    \/ StoreValue
    \/ CallListener
    \/ ListenerBody
    \/ ListenerIfDiffers
    \/ ListenerDrop
    \/ ListenerMake
    \/ WalkStep
    \/ Settle
    \/ Return
    \/ ExitTransaction

SpecCallbacks == InitCallbacks /\ [][NextCallbacks]_vars

(* ---- programs that use fn --------------------------------------------- *)
Payloads == 1 .. MaxPayload

\* a = Event(); b = Event(); result = example(a, b), of
\* test_event_positional_args
TwoEvents(fn) ==
    wrapped(Registered(Registered(<<>>, "Event", <<>>, NoValue, "none"),
                       "Event", <<>>, NoValue, "none"),
            <<1, 2>>, fn)

\* a = Event(); res = passthrough(a, a), of the docstring
SameEventTwice(fn) ==
    wrapped(Registered(<<>>, "Event", <<>>, NoValue, "none"), <<1, 1>>, fn)

\* a = Value(initial); b = Event(); res = passthrough(a, b), of the docstring
ValueAndEvent(initial, fn) ==
    wrapped(Registered(MkValue(<<>>, initial, <<>>, "none"),
                       "Event", <<>>, NoValue, "none"),
            <<1, 2>>, fn)

\* e = Event(); v = event_to_value(e); e2 = Event();
\* result = example(e, v, e2), of test_mixed
TestMixed(fn) ==
    wrapped(Registered(event_to_value(Registered(<<>>, "Event", <<>>, NoValue, "none"), 1),
                       "Event", <<>>, NoValue, "none"),
            <<1, 2, 3>>, fn)

\* the program has built one of these and goes on to make MaxCalls calls
InitFn ==
    /\ reactives \in {TwoEvents(fn) : fn \in WrappedFns}
                      \cup {SameEventTwice(fn) : fn \in WrappedFns}
                      \cup {ValueAndEvent(initial, fn) :
                                initial \in {NoValue} \cup Payloads, fn \in WrappedFns}
                      \cup {TestMixed(fn) : fn \in WrappedFns}
    /\ mark_changed = NoContext
    /\ stack = <<>>
    /\ exc = "none"
    /\ trace = <<>>
    /\ ops = MaxOps - MaxCalls
    /\ late = 0
    /\ timer = NoTimer
    /\ loop = IdleLoop
    /\ fsm = NoFsm
    /\ output_values = <<>>

NextFn ==
    \/ \E n \in Ids, v \in Payloads : CallSet(n, v)
    \/ \E n \in Ids, v \in Payloads :
          reactives[n].fn \notin WrappedFns /\ CallEmit(n, v)
    \/ EnterTransaction
    \/ StoreValue
    \/ CallListener
    \/ ListenerBody
    \/ ArgListener
    \/ WalkStep
    \/ Settle
    \/ on_inputs_done
    \/ Return
    \/ ExitTransaction
    \/ Unwind

SpecFn == InitFn /\ [][NextFn]_vars

(* ---- programs that use FSM -------------------------------------------- *)
\* source = Value(0); button = Event(inputs=[source]) emitting twice when
\* source is 1; FSM(get_next_state, [button, source]), at the call of
\* get_state in the construction of its state Value (value.py line 306);
\* the program goes on to assign source and to make button emit, twice in
\* all, while the loop runs
InitFsm ==
    /\ LET made == FSM(Registered(MkValue(<<>>, 0, <<>>, "none"), "Event", <<1>>,
                                  NoValue, "multi"), <<2, 1>>)
       IN /\ reactives = made.reactives
          /\ timer = made.timer
          /\ loop = made.loop
          /\ fsm = made.fsm
    /\ output_values = <<>>
    /\ mark_changed = NoContext
    /\ exc = "none"
    /\ trace = <<>>
    /\ stack = <<Frame("done", fsm.state, NoValue)>>
    /\ ops = MaxOps - 2
    /\ late = 0

NextFsm ==
    \/ FsmInitEnd
    \/ \E n \in Range(fsm.inputs), v \in {0} \cup Data : Constructed /\ CallSet(n, v)
    \/ \E n \in Range(fsm.inputs), v \in Payloads : Constructed /\ CallEmit(n, v)
    \/ Constructed /\ Tick
    \/ Constructed /\ on_timer
    \/ EnterTransaction
    \/ StoreValue
    \/ CallListener
    \/ ListenerBody
    \/ FsmListener
    \/ SetupTimerListener
    \/ WalkStep
    \/ Settle
    \/ SettleTimeoutTime
    \/ get_state
    \/ get_state_return
    \/ Return
    \/ ExitTransaction
    \/ Unwind

SpecFsm == InitFsm /\ [][NextFsm]_vars

(* ---- programs that use window ----------------------------------------- *)
\* v = Value(1) or v = Event(); ws = Value(k); w = window(v, ws), of
\* test_window in test_window.py; the program goes on to make MaxCalls
\* assignments to v or ws, or emissions of v
InitWindow ==
    /\ \E kind \in {"Value", "Event"}, k \in 0 .. MaxWindow :
           LET v    == IF kind = "Value"
                       THEN MkValue(<<>>, 1, <<>>, "none")
                       ELSE Registered(<<>>, "Event", <<>>, NoValue, "none")
               made == window(MkValue(v, k, <<>>, "none"), 1, 2)
           IN /\ reactives = made.reactives
              /\ output_values = made.output_values
    /\ mark_changed = NoContext
    /\ exc = "none"
    /\ trace = <<>>
    /\ stack = <<>>
    /\ ops = MaxOps - MaxCalls
    /\ late = 0
    /\ timer = NoTimer
    /\ loop = IdleLoop
    /\ fsm = NoFsm

NextWindow ==
    \/ \E v \in Payloads : CallSet(1, v)
    \/ \E v \in Payloads : CallEmit(1, v)
    \/ \E k \in 0 .. MaxWindow : CallSet(2, k)
    \/ EnterTransaction
    \/ StoreValue
    \/ CallListener
    \/ WindowListener
    \/ WalkStep
    \/ SettleWindow
    \/ Return
    \/ ExitTransaction

SpecWindow == InitWindow /\ [][NextWindow]_vars

(* ---- programs that use emit_at ---------------------------------------- *)
\* t = Value(configuration); e = emit_at(t); e.on_event(...), of
\* setup_emit_at in test_emit_at.py; the program goes on to make MaxCalls
\* assignments to t while the loop runs
InitEmitAt ==
    /\ \E value \in Configurations :
           LET made == emit_at(MkValue(<<>>, value, <<>>, "none"), 1)
           IN /\ reactives = MkListener(made.reactives, made.timer.event,
                                        [act |-> "nop", tgt |-> 0, key |-> 0])
              /\ timer = made.timer
              /\ loop = made.loop
    /\ fsm = NoFsm
    /\ output_values = <<>>
    /\ mark_changed = NoContext
    /\ stack = <<>>
    /\ exc = "none"
    /\ trace = <<>>
    /\ ops = MaxOps - MaxCalls
    /\ late = 0

NextEmitAt ==
    \/ \E n \in Ids, value \in Configurations : CallSet(n, value)
    \/ Tick
    \/ on_timer
    \/ EnterTransaction
    \/ StoreValue
    \/ CallListener
    \/ ListenerBody
    \/ SetupTimerListener
    \/ ExitTransaction

SpecEmitAt == InitEmitAt /\ [][NextEmitAt]_vars

\* the same programs on a loop that keeps running (run_forever): a callback
\* that is due is run, a call that was started goes on
SpecEmitAtLive == SpecEmitAt /\ WF_vars(NextEmitAt)

(* ======================================================================= *)
(* What the claims speak of                                                *)
(* ======================================================================= *)
\* the declared graph, read from the inputs lists: the nodes d depends on,
\* directly or transitively
RECURSIVE InputsClosure(_, _)
InputsClosure(rs, S) ==
    LET T == S \cup UNION {Range(rs[m].inputs) : m \in S}
    IN IF T = S THEN S ELSE InputsClosure(rs, T)

Ancestors(d) == InputsClosure(reactives, Range(reactives[d].inputs))

Acyclic == \A n \in Ids : n \notin Ancestors(n)

\* every write a listener makes goes to a declared dependent of its node
Declared ==
    \A n \in Ids : \A k \in 1 .. Len(reactives[n].cbs) :
        reactives[n].cbs[k].act = "fwd"
            => n \in Range(reactives[reactives[n].cbs[k].tgt].inputs)

\* the nodes whose change reaches m in one step: its inputs, and the nodes
\* with a listener that assigns m
Feeds(rs, m) ==
    Range(rs[m].inputs)
        \cup {n \in DOMAIN rs : \E k \in 1 .. Len(rs[n].cbs) :
                   rs[n].cbs[k] = [act |-> "fwd", tgt |-> m, key |-> 0]}

RECURSIVE FeedsClosure(_, _)
FeedsClosure(rs, S) ==
    LET T == S \cup UNION {Feeds(rs, m) : m \in S}
    IN IF T = S THEN S ELSE FeedsClosure(rs, T)

\* no node's change comes back to it, through inputs or through listeners
NoFeedback == \A n \in Ids : n \notin FeedsClosure(reactives, Feeds(reactives, n))

\* the events of the trace of one kind about one node
Events(e, n) == {k \in 1 .. Len(trace) : trace[k].e = e /\ trace[k].n = n}

\* a top-level set/emit has returned (exc tells how)
CallDone == ~Running /\ trace # <<>> /\ trace[1].e = "call"

\* no user function of the program ever raises
NoRaiser ==
    \A n \in Ids :
        /\ reactives[n].fn \notin {"part", "multi"}
        /\ \A j \in 1 .. Len(reactives[n].cbs) : reactives[n].cbs[j].act # "raise"

\* the closure of a transaction frame
ClosureOf(f) == reactives[f.self].lists[f.slot]

\* the elements of a finite set of integers, in ascending order
RECURSIVE Ordered(_)
Ordered(S) ==
    IF S = {} THEN <<>>
    ELSE LET m == CHOOSE x \in S : \A y \in S : x <= y
         IN <<m>> \o Ordered(S \ {m})

(* ---- C1 ---------------------------------------------------------------- *)
\* C1 (single run): in an acyclic graph whose writes are all declared, no
\* node has its settle step invoked more than once in the course of a
\* top-level set/emit, and when the call has run its walk to the end, every
\* node one of whose direct inputs was set or emitted in it (in particular a
\* node reached through two paths) has been invoked exactly once.
C1_SingleRun ==
    (Acyclic /\ Declared) =>
        /\ \A n \in Ids : Cardinality(Events("run", n)) <= 1
        /\ \A k \in 1 .. Len(stack) : \A i, j \in 1 .. Len(stack[k].ran) :
               stack[k].ran[i] = stack[k].ran[j] => i = j
        /\ (CallDone /\ exc = "none") =>
               \A d \in Ids :
                   (\E u \in Range(reactives[d].inputs) : Events("store", u) # {})
                       => Cardinality(Events("run", d)) = 1

\* a node with two changed inputs (both paths of a diamond) has run once
C1_Witness ==
    /\ CallDone /\ exc = "none" /\ Acyclic /\ Declared
    /\ \E d \in Ids : \E u1, u2 \in Range(reactives[d].inputs) :
           /\ u1 # u2
           /\ u1 \in Ancestors(u2)
           /\ Events("store", u1) # {} /\ Events("store", u2) # {}
           /\ Cardinality(Events("run", d)) = 1

(* ---- C2 ---------------------------------------------------------------- *)
\* C2 (glitch-freedom): in every transaction the settle steps run in an
\* order in which no node runs after one of its dependents (direct or
\* transitive), one at a time; and when a settle step is invoked, the root's
\* listeners are done and every direct input of the node that was changed in
\* this transaction and is itself flagged to run has already run.
C2_GlitchFree ==
    \A k \in 1 .. Len(stack) :
        stack[k].tx = "new" =>
            LET f == stack[k]
                b == ClosureOf(f)
            IN /\ \A i, j \in 1 .. Len(f.ran) :
                      i < j => f.ran[j] \notin Ancestors(f.ran[i])
               /\ (k < Len(stack) /\ stack[k + 1].op = "done") =>
                      LET d == stack[k + 1].self
                      IN /\ f.pc = "walk"
                         /\ f.ran[Len(f.ran)] = d
                         /\ \A u \in Range(reactives[d].inputs) \cap DOMAIN b.idx :
                                (b.changed[b.idx[u]] /\ b.to_run[b.idx[u]])
                                    => \E i \in 1 .. Len(f.ran) - 1 : f.ran[i] = u

\* the settle step of an Event is invoked after the Value it reads, changed in
\* the same transaction, has been recomputed
C2_Witness ==
    /\ Len(stack) >= 2 /\ exc = "none"
    /\ Top.op = "done" /\ Top.pc = "enter"
    /\ reactives[Top.self].kind = "Event"
    /\ LET f == stack[Len(stack) - 1]
       IN /\ f.tx = "new"
          /\ \E u \in Range(reactives[Top.self].inputs) :
                 /\ reactives[u].kind = "Value" /\ reactives[u].fn = "sum"
                 /\ f.self \in Range(reactives[u].inputs)
                 /\ u \in Range(f.ran)
                 /\ reactives[u].value = GetValue(reactives, u).v

(* ---- C3 ---------------------------------------------------------------- *)
\* C3 (run to completion), as the claim states it: when a top-level set on a
\* Value returns normally, in an acyclic graph whose writes are all declared,
\* every derived Value downstream of the root whose recompute function
\* returns data holds that function's result on the current data of its
\* inputs, and no transaction context is active.
C3_RunToCompletion ==
    (CallDone /\ exc = "none" /\ Acyclic /\ Declared
        /\ reactives[trace[1].n].kind = "Value") =>
        /\ mark_changed = NoContext
        /\ \A d \in Ids :
               (trace[1].n \in Ancestors(d) /\ reactives[d].kind = "Value"
                   /\ reactives[d].fn = "sum")
                   => reactives[d].value = GetValue(reactives, d).v

\* C3 as amended: when a top-level set on a Value returns normally, in an
\* acyclic graph whose writes are all declared, no transaction context is
\* active, every derived Value downstream of the root that had an input set
\* in the transaction has run and holds its function's result on the current
\* data of its inputs, and those that have not run had no input set.
C3_RecomputedFresh ==
    (CallDone /\ exc = "none" /\ Acyclic /\ Declared
        /\ reactives[trace[1].n].kind = "Value") =>
        /\ mark_changed = NoContext
        /\ \A d \in Ids :
               (trace[1].n \in Ancestors(d) /\ reactives[d].kind = "Value"
                   /\ reactives[d].fn = "sum")
                   => IF \E u \in Range(reactives[d].inputs) : Events("store", u) # {}
                      THEN /\ Events("run", d) # {}
                           /\ reactives[d].value = GetValue(reactives, d).v
                      ELSE Events("run", d) = {}

\* x, y = f(x), w = f(x, y): after the set on x both hold fresh results
C3_Witness ==
    /\ CallDone /\ exc = "none" /\ Acyclic /\ Declared
    /\ reactives[trace[1].n].kind = "Value"
    /\ \E y, w \in Ids :
           /\ reactives[y].kind = "Value" /\ reactives[y].fn = "sum"
           /\ reactives[w].kind = "Value" /\ reactives[w].fn = "sum"
           /\ reactives[y].inputs = <<trace[1].n>>
           /\ reactives[w].inputs = <<trace[1].n, y>>
           /\ reactives[trace[1].n].value = 1
           /\ reactives[y].value = 2
           /\ reactives[w].value = 1

(* ---- C4 ---------------------------------------------------------------- *)
\* C4 (acyclicity enforcement), as the claim states it: when the declared
\* graph has a cycle through the root, the set/emit on it ends, raised to the
\* caller, in a RuntimeError whose message names a dependency loop.
C4_DependencyLoopError ==
    (CallDone /\ trace[1].n \in Ancestors(trace[1].n))
        => exc = "RuntimeError: dependency loop"

(* ---- C5 ---------------------------------------------------------------- *)
\* C5 (termination of the closure construction), as the claim states it:
\* every traversal that builds a sorted closure completes, and recurses no
\* deeper than there are nodes in the graph.
C5_TraversalBounded ==
    \A k \in 1 .. Len(trace) :
        trace[k].e = "dfs" => (trace[k].i >= 1 /\ trace[k].v <= Len(reactives))

(* ---- C6 ---------------------------------------------------------------- *)
\* a set/emit whose closure construction failed on a cycle is about to
\* return the exception to its caller
LoopFailure ==
    /\ Running /\ exc # "none"
    /\ Top.op \in {"set", "emit"} /\ Top.pc = "enter"
    /\ \E n \in Ids : n \in Ancestors(n) /\ (n = Top.self \/ Top.self \in Ancestors(n))

\* C6 (rejected mutation on a loop): when a set fails because of a cycle
\* among the dependents of its node, then as the call returns the node's datum
\* is the one it had before the call, the context is the one active before the
\* call, and since the call began no listener was invoked, no settle step ran
\* and nothing was stored.
C6_RejectedMutation ==
    [][LoopFailure =>
          /\ stack' = Pop(stack)
          /\ exc' = exc
          /\ mark_changed' = Top.entry
          /\ reactives'[Top.self].value = Top.was
          /\ \A k \in Top.t0 + 1 .. Len(trace') :
                 trace'[k].e \notin {"cb", "run", "store"}]_vars

\* the rejected set was on a node that had no datum, with a listener
\* registered on a node of the cycle
C6_Witness ==
    /\ ~Running /\ exc = "RecursionError"
    /\ trace # <<>> /\ trace[1].e = "call"
    /\ trace[1].n \in Ancestors(trace[1].n)
    /\ reactives[trace[1].n].kind = "Value"
    /\ trace[1].i = NoValue /\ trace[1].v # NoValue
    /\ reactives[trace[1].n].value = NoValue
    /\ NumListeners > 0
    /\ mark_changed = NoContext

(* ---- C7 ---------------------------------------------------------------- *)
\* C7 (context teardown): whenever a set/emit call returns, normally or with
\* an exception, at any depth, the active context is the one that was active
\* when the call was made; and whenever nothing is running the context is
\* None.
C7_ContextTeardown ==
    [][/\ (Running /\ Top.op \in {"set", "emit"} /\ stack' = Pop(stack))
            => mark_changed' = Top.entry
       /\ ~Running' => mark_changed' = NoContext]_vars

\* an exception is leaving a transaction that was started inside another
\* node's transaction
C7_Witness ==
    /\ Len(stack) >= 3 /\ exc = "UserError"
    /\ Top.op \in {"set", "emit"} /\ Top.tx = "new"
    /\ Top.old.k # "none"
    /\ mark_changed = [k |-> "tx", self |-> Top.self, slot |-> Top.slot]

(* ---- C8 ---------------------------------------------------------------- *)
\* the top-level set that has returned was on a Value X and called a
\* listener that assigns the Value Y, which is none of X's dependents, in a
\* program where no change feeds back into its own origin
UntrackedWrite(X, Y) ==
    /\ CallDone /\ trace[1].n = X
    /\ reactives[X].kind = "Value" /\ reactives[Y].kind = "Value"
    /\ \E k \in 1 .. Len(reactives[X].cbs) :
           /\ reactives[X].cbs[k] = [act |-> "fwd", tgt |-> Y, key |-> 0]
           /\ \E j \in Events("cb", X) : trace[j].i = k
    /\ Y # X /\ X \notin Ancestors(Y)
    /\ NoFeedback

\* C8 (untracked-edge recovery): when a listener on Value X assigns a Value
\* Y outside the closure of X's transaction, the warning about the untracked
\* dependency from X to Y is emitted and then the new datum is stored in Y,
\* inside the listener; the engine raises nothing, and Y holds the new datum
\* when the call ends (nothing else having assigned Y); when no user function
\* raises either, the call returns normally, every declared dependent of Y
\* has run in a transaction nested inside the listener, and every declared
\* dependent of X has run in the outer walk.
C8_UntrackedRecovery ==
    \A X, Y \in Ids :
        UntrackedWrite(X, Y) =>
            /\ \E k, m \in 1 .. Len(trace) :
                   /\ k < m
                   /\ trace[k] = Ev("warn", X, Y, 0)
                   /\ trace[m] = Ev("store", Y, trace[1].v, 3)
            /\ exc \in {"none", "UserError"}
            /\ Cardinality(Events("store", Y)) = 1 => reactives[Y].value = trace[1].v
            /\ NoRaiser =>
                   /\ exc = "none"
                   /\ \A d \in Ids :
                          Y \in Range(reactives[d].inputs) =>
                              \E k \in Events("run", d) : trace[k].i = 3
                   /\ \A d \in Ids :
                          X \in Range(reactives[d].inputs) =>
                              \E k \in Events("run", d) : trace[k].i = 1

\* Y's dependent was recomputed from Y's new datum inside the listener, and
\* X's dependent from X's new datum in the outer walk
C8_Witness ==
    \E X, Y, d, h \in Ids :
        /\ UntrackedWrite(X, Y) /\ exc = "none"
        /\ reactives[h].kind = "Value" /\ reactives[h].fn = "sum"
        /\ reactives[h].inputs = <<X>>
        /\ \E k \in Events("run", h) : trace[k].i = 1
        /\ reactives[h].value = (trace[1].v + 1) % ValMod
        /\ Y \notin Ancestors(X)
        /\ reactives[d].kind = "Value" /\ reactives[d].fn = "sum"
        /\ reactives[d].inputs = <<Y>>
        /\ \E k \in Events("run", d) : trace[k].i = 3
        /\ reactives[Y].value = trace[1].v
        /\ reactives[d].value = (trace[1].v + 1) % ValMod

(* ---- C9 ---------------------------------------------------------------- *)
\* a set/emit is being made, while a transaction is active, on a node of that
\* transaction's closure
JoinCall ==
    /\ Running /\ exc = "none"
    /\ Top.op \in {"set", "emit"} /\ Top.pc = "enter"
    /\ mark_changed.k = "tx"
    /\ (Top.self = mark_changed.self \/ mark_changed.self \in Ancestors(Top.self))

NoChangeSettle ==
    /\ Running /\ exc = "none"
    /\ Top.op = "done" /\ Top.pc = "enter"
    /\ reactives[Top.self].kind = "Value" /\ reactives[Top.self].fn # "none"
    /\ ~GetValue(reactives, Top.self).raise
    /\ GetValue(reactives, Top.self).v = NoChange

\* C10 (no-change is a no-op): that settle step calls get_value and returns;
\* no datum, no flag and no list of any node changes, no listener is invoked
\* and nothing is stored.
C10_NoChangeNoOp ==
    [][NoChangeSettle =>
          /\ reactives' = reactives
          /\ mark_changed' = mark_changed
          /\ stack' = Pop(stack)
          /\ exc' = exc
          /\ trace' = Append(trace, Ev("get", Top.self, NoChange, 0))]_vars

\* a Value with a dependent or a listener has returned NoChange in a walk
C10_Witness ==
    /\ Running /\ exc = "none"
    /\ trace # <<>> /\ trace[Len(trace)].e = "get" /\ trace[Len(trace)].v = NoChange
    /\ Top.op \in {"set", "emit"} /\ Top.pc = "walk"
    /\ LET n == trace[Len(trace)].n
       IN /\ reactives[n].deps # <<>> \/ reactives[n].cbs # <<>>
          /\ Events("store", n) = {}
          /\ ~ClosureOf(Top).changed[ClosureOf(Top).idx[n]]

(* ---- C11 --------------------------------------------------------------- *)
\* C11 (set is not deduplicated): when a top-level set on a Value has
\* returned normally, whether or not the new datum equals the one the Value
\* held, the datum was stored first, each listener of the Value has been
\* invoked with the new datum once for every store into the Value (exactly
\* once in an acyclic, fully declared graph), and every direct dependent of
\* the Value is flagged to run and has run.
C11_NoDedup ==
    (CallDone /\ exc = "none" /\ reactives[trace[1].n].kind = "Value") =>
        LET n == trace[1].n
            v == trace[1].v
        IN /\ \E m \in 2 .. 3 : m <= Len(trace) /\ trace[m] = Ev("store", n, v, 1)
           /\ \A k \in 1 .. Len(reactives[n].cbs) :
                  LET calls == {j \in Events("cb", n) : trace[j].i = k}
                  IN /\ Cardinality(calls) = Cardinality(Events("store", n))
                     /\ \E j \in calls : trace[j].v = v
                     /\ (Acyclic /\ Declared) => Cardinality(calls) = 1
           /\ \A d \in Ids :
                  n \in Range(reactives[d].inputs) =>
                      /\ Events("run", d) # {}
                      /\ LET b == reactives[n].lists[reactives[n].tinfo]
                         IN b.to_run[b.idx[d]]

\* the set assigned the datum the Value already held; its listener was called
\* and its dependent ran all the same
C11_Witness ==
    /\ CallDone /\ exc = "none"
    /\ reactives[trace[1].n].kind = "Value"
    /\ trace[1].i = trace[1].v
    /\ reactives[trace[1].n].cbs # <<>>
    /\ \E j \in Events("cb", trace[1].n) : trace[j].v = trace[1].v
    /\ \E d \in Ids : /\ trace[1].n \in Range(reactives[d].inputs)
                      /\ Events("run", d) # {}

(* ---- C12 --------------------------------------------------------------- *)
\* the top-level call has returned normally, in an acyclic, fully declared
\* graph, and in it the reaction of the Event m, which no listener emits,
\* has run
ReactionRan(m) ==
    /\ CallDone /\ exc = "none" /\ Acyclic /\ Declared
    /\ reactives[m].kind = "Event" /\ reactives[m].fn # "none"
    /\ Events("run", m) # {}
    /\ \A n \in Ids : \A j \in 1 .. Len(reactives[n].cbs) : reactives[n].cbs[j].tgt # m

\* C12 (multiple emissions in one reaction): when the reaction of an Event
\* calls emit k times in a transaction, emit was entered k times, each
\* listener of the Event was invoked k times, with the payloads in call order
\* and right after each emission, and every direct dependent of the Event had
\* its settle step invoked at most once: once if k >= 1, and if k = 0 only
\* when another of its inputs changed.
C12_MultipleEmissions ==
    \A m \in Ids :
        ReactionRan(m) =>
            LET out == Reaction(reactives, m).out
            IN /\ Cardinality(Events("run", m)) = 1
               /\ [j \in 1 .. Len(out) |-> trace[Ordered(Events("store", m))[j]].v] = out
               /\ Cardinality(Events("store", m)) = Len(out)
               /\ \A l \in 1 .. Len(reactives[m].cbs) :
                      LET calls == Ordered({j \in Events("cb", m) : trace[j].i = l})
                      IN /\ [j \in 1 .. Len(calls) |-> trace[calls[j]].v] = out
                         /\ l = 1 => \A j \in 1 .. Len(calls) :
                                         trace[calls[j] - 1] = Ev("store", m, out[j], 3)
               /\ \A d \in Ids :
                      m \in Range(reactives[d].inputs) =>
                          /\ Cardinality(Events("run", d)) <= 1
                          /\ out # <<>> => Cardinality(Events("run", d)) = 1
                          /\ (out = <<>> /\ \A u \in Range(reactives[d].inputs) :
                                               Events("store", u) = {})
                                 => Events("run", d) = {}

\* two emissions in one reaction reached the listener twice, in order, and
\* the dependent of the Event ran once
C12_Witness ==
    \E m, d \in Ids :
        /\ ReactionRan(m)
        /\ Len(Reaction(reactives, m).out) = 2
        /\ Reaction(reactives, m).out[1] # Reaction(reactives, m).out[2]
        /\ Len(reactives[m].cbs) = 1
        /\ Cardinality(Events("cb", m)) = 2
        /\ m \in Range(reactives[d].inputs)
        /\ Cardinality(Events("run", d)) = 1

(* ---- C13 --------------------------------------------------------------- *)
\* a top-level set/emit has just entered a transaction of its own
FreshStart ==
    (Len(stack) = 1 /\ Top.tx = "new" /\ Top.pc = "body") =>
        LET b == ClosureOf(Top)
        IN \A p \in 1 .. Len(b.all) :
               /\ b.changed[p] <=> p = 1
               /\ b.to_run[p] <=> Top.self \in Range(reactives[b.all[p]].inputs)

\* C13 (failure during the walk): once a user function has raised, the same
\* exception leaves one frame after the other up to the caller of the
\* top-level set/emit, and meanwhile no datum changes (the nodes settled
\* before keep theirs) and nothing more is run, stored or notified; and every
\* top-level set/emit that starts a transaction finds all flags cleared but
\* its own: only the root is flagged changed and only its direct dependents
\* flagged to run.
C13_WalkFailure ==
    [][/\ (Running /\ exc # "none") =>
              /\ exc' = exc
              /\ stack' = Pop(stack)
              /\ trace' = trace
              /\ \A n \in Ids : reactives'[n].value = reactives[n].value
       /\ FreshStart']_vars

\* the call ended in the exception of a recompute function; a node that had
\* settled before it keeps its new datum, and the failing node has run
C13_Witness ==
    /\ CallDone /\ exc = "UserError"
    /\ \E y, p \in Ids :
           /\ y # p
           /\ Events("run", y) # {} /\ Events("run", p) # {}
           /\ \E j \in Events("store", y) : /\ trace[j].v = reactives[y].value
                                           /\ \A k \in Events("run", p) : j < k
           /\ Events("store", p) = {}
           /\ reactives[p].fn \in {"part", "multi"}

(* ---- C14 --------------------------------------------------------------- *)
\* no trace of the collected nodes: none is listed among the dependents of a
\* node, none is in the closure of a transaction in progress, none has been
\* run, and no assertion of the engine has failed
NoDeadDependent ==
    /\ \A n \in Ids : \A j \in 1 .. Len(reactives[n].deps) :
           reactives[reactives[n].deps[j]].kind # "dead"
    /\ \A k \in 1 .. Len(stack) :
           stack[k].tx = "new" =>
               \A p \in 1 .. Len(ClosureOf(stack[k]).all) :
                   reactives[ClosureOf(stack[k]).all[p]].kind # "dead"
    /\ \A k \in 1 .. Len(trace) :
           trace[k].e = "run" => reactives[trace[k].n].kind # "dead"
    /\ exc # "AssertionError"

\* C14 (weak liveness): when a dependent is collected, it leaves the
\* dependents list of each of its inputs and the version of each is
\* incremented; afterwards no node lists it, every transaction started builds
\* a closure without it, no engine assertion fails and it is never invoked.
C14_WeakLiveness ==
    [][/\ \A u, d \in Ids :
              (d \in Range(reactives[u].deps) /\ reactives[d].kind # "dead"
                   /\ reactives'[d].kind = "dead" /\ reactives'[u].kind # "dead")
                  => /\ d \notin Range(reactives'[u].deps)
                     /\ reactives'[u].ver > reactives[u].ver
       /\ NoDeadDependent']_vars

\* a set on a node one of whose two dependents has been collected returned
\* normally, the other dependent having run
C14_Witness ==
    /\ CallDone /\ exc = "none"
    /\ \E d \in Ids : reactives[d].kind = "dead"
    /\ LET x == trace[1].n
       IN /\ reactives[x].ver >= 3
          /\ Len(reactives[x].deps) = 1
          /\ Events("run", reactives[x].deps[1]) # {}
          /\ Len(reactives[x].lists[reactives[x].tinfo].all) = 2

(* ---- C15 --------------------------------------------------------------- *)
\* a Value with a get_value has just been constructed; the only event is the
\* call of get_value, with what it returned and the initial_value argument
JustBuilt ==
    /\ ~Running /\ Len(trace) = 1 /\ trace[1].e = "get"
    /\ trace[1].n = Len(reactives)

\* C15 (construction with a recompute function), as the claim states it:
\* get_value is called once; a datum it returns is the initial datum, and
\* when it returns NoChange the initial datum is NoValue.
C15_InitialDatum ==
    JustBuilt =>
        /\ Cardinality(Events("get", trace[1].n)) = 1
        /\ reactives[trace[1].n].value =
               IF trace[1].v # NoChange THEN trace[1].v ELSE NoValue

\* C15 as amended: get_value is called once; a datum it returns is the
\* initial datum, overriding initial_value, and when it returns NoChange the
\* initial datum is the initial_value argument (NoValue when none is given).
C15_InitialDatumOrArgument ==
    JustBuilt =>
        /\ Cardinality(Events("get", trace[1].n)) = 1
        /\ reactives[trace[1].n].value =
               IF trace[1].v # NoChange THEN trace[1].v ELSE trace[1].i

\* get_value returned NoChange to a constructor that was given an initial_value
C15_Witness ==
    /\ JustBuilt
    /\ trace[1].v = NoChange /\ trace[1].i # NoValue
    /\ reactives[trace[1].n].value = trace[1].i

(* ---- C16 --------------------------------------------------------------- *)
\* the step calls a listener: of the node of the top frame, with that
\* frame's datum, in the caller's stack; the frame has made its store, the
\* active transaction has the node marked changed (the no-dependents path
\* has nothing to mark), and the listener registered just before has been
\* called for this datum
ListenerCalled ==
    LET new == trace'[Len(trace')]
        c   == mark_changed
    IN /\ Top.op \in {"set", "emit"}
       /\ new.n = Top.self /\ new.v = Top.val
       /\ new.i \in 1 .. Len(reactives[Top.self].cbs)
       /\ Len(stack') = Len(stack) + 1
       /\ stack'[Len(stack')].op = "cb" /\ stack'[Len(stack')].i = new.i
       /\ \E k \in Top.t0 + 1 .. Len(trace) :
              trace[k] = Ev("store", Top.self, Top.val, Len(stack))
       /\ c.k = "tx" => /\ Top.self \in DOMAIN ListsOf(reactives, c).idx
                        /\ ListsOf(reactives, c).changed[ListsOf(reactives, c).idx[Top.self]]
       /\ c.k = "nodeps" => c.self = Top.self
       /\ IF new.i = 1
          THEN trace[Len(trace)] = Ev("store", Top.self, Top.val, Len(stack))
          ELSE \E k \in Top.t0 + 1 .. Len(trace) :
                   trace[k] = Ev("cb", Top.self, Top.val, new.i - 1)

\* an untracked write was warned about after the assignment s
WarnedSince(s) == \E k \in s + 1 .. Len(trace) : trace[k].e = "warn"

\* the step invokes the settle step of d: every assignment its inputs have
\* had in this call was followed by a call of each listener of the input,
\* and no listener of an input is still running; with exempt, the
\* assignments and the listener calls followed by a warning are left out
ListenersDone(d, exempt) ==
    /\ \A s \in 1 .. Len(trace) :
           (trace[s].e = "store" /\ trace[s].n \in Range(reactives[d].inputs)
               /\ ~(exempt /\ WarnedSince(s))) =>
               \A i \in 1 .. Len(reactives[trace[s].n].cbs) :
                   \E k \in s + 1 .. Len(trace) : trace[k] = Ev("cb", trace[s].n, trace[s].v, i)
    /\ \A j \in 1 .. Len(stack) :
           (stack[j].op = "cb" /\ stack[j].self \in Range(reactives[d].inputs))
               => exempt /\ WarnedSince(stack[j].t0)

ListenerOrdering(exempt) ==
    LET new == trace'[Len(trace')]
    IN (Len(trace') = Len(trace) + 1 /\ Running) =>
           /\ new.e = "cb" => ListenerCalled
           /\ new.e = "run" => ListenersDone(new.n, exempt)

LateEdge(self, other) ==
    \E k \in Len(reactives[self].args) + 1 .. Len(reactives[self].inputs) :
        reactives[self].inputs[k] = other

\* C17 (late edge declaration): once add_input(self, other) has been called,
\* the lists of every transaction that contain other contain self; no
\* untracked-dependency warning is given for a write to self in a
\* transaction rooted at other or upstream of it; and when a call on such a
\* root, in an acyclic graph whose writes are all declared, has assigned
\* self and returned normally, every dependent of self has been run by the
\* walk of that same transaction.
C17_LateEdge ==
    \A self, other \in Ids :
        LateEdge(self, other) =>
            /\ \A j \in 1 .. Len(stack) :
                   (stack[j].tx = "new"
                      /\ other \in DOMAIN reactives[stack[j].self].lists[stack[j].slot].idx)
                       => self \in DOMAIN reactives[stack[j].self].lists[stack[j].slot].idx
            /\ \A k \in 1 .. Len(trace) :
                   (trace[k].e = "warn" /\ trace[k].v = self)
                       => trace[k].n \notin {other} \cup Ancestors(other)
            /\ (CallDone /\ exc = "none" /\ Acyclic /\ Declared
                  /\ trace[1].n \in {other} \cup Ancestors(other)
                  /\ Events("store", self) # {}) =>
                   \A d \in Ids :
                       self \in Range(reactives[d].inputs) =>
                           \E k \in Events("run", d) : trace[k].i = 1

\* after add_input(self, other), a set on other whose listener assigns self
\* has returned: the assignment joined the transaction without a warning and
\* self's dependent ran in the walk of that transaction
C17_Witness ==
    /\ CallDone /\ exc = "none" /\ Acyclic /\ Declared
    /\ \A k \in 1 .. Len(trace) : trace[k].e # "warn"
    /\ \E self, d \in Ids :
           /\ LateEdge(self, trace[1].n)
           /\ reactives[trace[1].n].cbs = <<[act |-> "fwd", tgt |-> self, key |-> 0]>>
           /\ \E k \in Events("store", self) : trace[k].i = 3
           /\ reactives[d].inputs = <<self>>
           /\ \E k \in Events("run", d) : trace[k].i = 1
           /\ reactives[d].value = GetValue(reactives, d).v

(* ---- C18 --------------------------------------------------------------- *)
\* what the last call did about the Event res that fn made: the calls of
\* the wrapped function, the emissions of res, and the emissions of its
\* Event arguments, one for each position the emitting Event is passed at
Calls(res) == SelectSeq(trace, LAMBDA ev : ev.e = "f" /\ ev.n = res)

Outputs(res) == SelectSeq(trace, LAMBDA ev : ev.e = "store" /\ ev.n = res)

Buffered(res) ==
    SelectSeq(trace, LAMBDA ev : /\ ev.e = "cb"
                                 /\ reactives[ev.n].cbs[ev.i].act = "buf"
                                 /\ reactives[ev.n].cbs[ev.i].tgt = res)

ArgsOfKind(res, kind) ==
    {k \in 1 .. Len(reactives[res].args) : reactives[reactives[res].args[k]].kind = kind}

\* the calls of the sequence that returned a datum
RECURSIVE Returned(_, _)
Returned(res, calls) ==
    IF calls = <<>> THEN <<>>
    ELSE LET values == [k \in 1 .. Len(reactives[res].args) |-> Item(Head(calls).v, k)]
             ret    == CallF(reactives[res].fn, values)
         IN (IF ret.raise \/ ret.v = NoChange THEN <<>> ELSE <<ret.v>>)
                \o Returned(res, Tail(calls))

\* C18 (fn with Event arguments), as the claim states it: when a call has
\* ended, the wrapped function of an Event made by fn from Events only has
\* been called once for each emission of an argument in that call, in their
\* order (all of them when the call returned normally), each time with the
\* emitting argument at the payload and every other argument at NoValue,
\* and the Event has emitted the results that were not NoChange, once each.
C18_OneOutputPerEvent ==
    \A res \in Ids :
        (CallDone /\ reactives[res].fn \in WrappedFns
            /\ ArgsOfKind(res, "Value") = {}) =>
            /\ Len(Calls(res)) <= Len(Buffered(res))
            /\ exc = "none" => Len(Calls(res)) = Len(Buffered(res))
            /\ \A j \in 1 .. Len(Calls(res)) :
                   LET key == reactives[Buffered(res)[j].n].cbs[Buffered(res)[j].i].key
                   IN /\ Calls(res)[j].i = key
                      /\ \A k \in 1 .. Len(reactives[res].args) :
                             Item(Calls(res)[j].v, k) =
                                 IF k = key THEN Buffered(res)[j].v ELSE NoValue
            /\ [j \in 1 .. Len(Outputs(res)) |-> Outputs(res)[j].v]
                   = Returned(res, Calls(res))

(* ---- C19 --------------------------------------------------------------- *)
\* C19 (fn with mixed Value and Event arguments), as the claim states it:
\* when a call has ended in which no Event argument of an Event made by fn
\* emitted, that Event has not emitted; and every call of the wrapped
\* function was made with, for each Value argument, the datum that Value
\* holds when the call has ended.
C19_ValuesSettled ==
    \A res \in Ids :
        (CallDone /\ reactives[res].fn \in WrappedFns
            /\ ArgsOfKind(res, "Value") # {}) =>
            /\ Buffered(res) = <<>> => Outputs(res) = <<>>
            /\ \A j \in 1 .. Len(Calls(res)) : \A k \in ArgsOfKind(res, "Value") :
                   Item(Calls(res)[j].v, k) = reactives[reactives[res].args[k]].value

(* ---- C20 --------------------------------------------------------------- *)
\* the Value an emit_at was made from: the one with setup_timer as listener
TimeValue ==
    CHOOSE n \in Ids : \E k \in 1 .. Len(reactives[n].cbs) :
        reactives[n].cbs[k].act = "setup_timer"

\* at most one timer is pending, and none while the program, between two
\* calls, has the configuration None in place
OneTimer ==
    /\ Cardinality(Scheduled(loop)) <= 1
    /\ (~Running /\ reactives[TimeValue].value = None) => Scheduled(loop) = {}

\* what a step does to the timers: (a) the listener's call with a
\* configuration other than the one in place cancels the timer of that one
\* and arms one for the new configuration, unless its time is None; (b) a
\* cancelled timer does not fire; (c) the timer that fires is the one armed
\* for the configuration the time Value holds, at or after its deadline,
\* and the Event emits that configuration's payload
Reload ==
    /\ (Running /\ Top.op = "cb" /\ Top.pc = "enter"
          /\ reactives[Top.self].cbs[Top.i].act = "setup_timer"
          /\ <<new_time(Top.val), new_emit(Top.val)>> # <<timer.timer_time, timer.timer_emit>>)
           => /\ timer.timer # None => loop'.handles[timer.timer].cancelled
              /\ timer'.timer_time = new_time(Top.val)
              /\ timer'.timer_emit = new_emit(Top.val)
              /\ IF new_time(Top.val) = None THEN timer'.timer = None
                 ELSE /\ timer'.timer \in Scheduled(loop') \ Scheduled(loop)
                      /\ loop'.handles[timer'.timer].when = new_time(Top.val)
    /\ \A h \in 1 .. Len(loop.handles) :
           loop.handles[h].cancelled =>
               /\ loop'.handles[h].cancelled
               /\ loop'.handles[h].ran = loop.handles[h].ran
    /\ \A h \in 1 .. Len(loop.handles) :
           (loop'.handles[h].ran /\ ~loop.handles[h].ran) =>
               /\ h = timer.timer
               /\ loop.handles[h].when = new_time(reactives[TimeValue].value)
               /\ loop.handles[h].when <= loop.now
               /\ stack' = <<[Frame("emit", timer.event,
                                    new_emit(reactives[TimeValue].value)) EXCEPT !.t0 = 1]>>

\* C20 (emit_at reload): whenever the time value changes to a different
\* (time, payload) configuration, the timer armed for the previous one is
\* cancelled and never fires afterwards; at every moment at most one timer
\* is pending for the emit_at event, and a configuration of None leaves no
\* timer pending.
C20_Reload == OneTimer /\ [][OneTimer' /\ Reload]_vars

\* test_replace_unfired: a configuration was replaced before its deadline;
\* the deadline has passed, its timer is cancelled and has not fired, and
\* the timer of the new configuration has fired and emitted its payload
C20_Witness ==
    /\ CallDone /\ exc = "none"
    /\ Scheduled(loop) = {}
    /\ \E old, new \in 1 .. Len(loop.handles) :
           /\ old < new
           /\ loop.handles[old].cancelled /\ ~loop.handles[old].ran
           /\ loop.handles[old].when <= loop.now
           /\ loop.handles[new].ran
           /\ loop.handles[new].when < loop.handles[old].when
           /\ trace[1] = Ev("call", timer.event, new_emit(reactives[TimeValue].value), new)
           /\ new_emit(reactives[TimeValue].value) # None

(* ---- C21 --------------------------------------------------------------- *)
\* the step is time's listener calling setup_timer
SetupTimerCalled ==
    /\ Running /\ Top.op = "cb" /\ Top.pc = "enter"
    /\ reactives[Top.self].cbs[Top.i].act = "setup_timer"
    /\ stack' = Pop(stack)

\* the step starts an emission of the emit_at event at top level
EmissionStarts ==
    /\ ~Running /\ stack' # <<>>
    /\ stack'[1].op = "emit" /\ stack'[1].self = timer.event

\* the handles the step runs
Fired == {h \in 1 .. Len(loop.handles) : loop'.handles[h].ran /\ ~loop.handles[h].ran}

\* what a step does: an emission of the event is the firing of exactly one
\* handle, the pending one of the configuration in place, carries its
\* payload and leaves the nonlocals cleared and no handle pending; a handle
\* is made only by time's listener; and time's listener, called after the
\* emission with the very configuration that was in place, arms a handle
SingleShot ==
    /\ EmissionStarts <=> Fired # {}
    /\ EmissionStarts =>
           /\ Fired = Scheduled(loop) /\ Cardinality(Fired) = 1
           /\ \A h \in Fired : loop.handles[h].when = new_time(reactives[TimeValue].value)
           /\ stack'[1].val = new_emit(reactives[TimeValue].value)
           /\ timer' = [NoTimer EXCEPT !.event = timer.event]
           /\ Scheduled(loop') = {}
    /\ Len(loop'.handles) > Len(loop.handles) => SetupTimerCalled
    /\ (SetupTimerCalled /\ timer.timer_time = None /\ timer.timer_emit = None
          /\ trace[1] = Ev("call", TimeValue, Top.val, Top.val) /\ Top.val # None)
           => /\ timer'.timer \in Scheduled(loop') \ Scheduled(loop)
              /\ loop'.handles[timer'.timer].when = new_time(Top.val)
              /\ timer'.timer_emit = new_emit(Top.val)

\* an emission that has returned called the event's listener once, with the
\* payload
Delivered ==
    (CallDone /\ trace[1].n = timer.event) =>
        /\ exc = "none"
        /\ Cardinality(Events("cb", timer.event)) = 1
        /\ \A k \in Events("cb", timer.event) : trace[k].v = trace[1].v

\* C21 (emit_at single shot): a configuration (time, payload) that stays in
\* place until its deadline causes exactly one emission, carrying that
\* payload (None when only a time was given), and no further emission
\* follows it until the time value is set again; after the emission the
\* stored configuration is cleared, so assigning the same time again arms a
\* new timer and produces another emission. On a loop that keeps running,
\* every handle that is armed is cancelled or fires.
C21_SingleShot ==
    /\ []Delivered
    /\ [][SingleShot]_vars
    /\ \A h \in 1 .. MaxCalls + 1 :
           (h \in Scheduled(loop)) ~>
               (h <= Len(loop.handles) /\ (loop.handles[h].ran \/ loop.handles[h].cancelled))

\* test_value twice over: the configuration fired, the same one was assigned
\* again, its new timer fired as well, and the second emission has returned
C21_Witness ==
    /\ CallDone /\ exc = "none"
    /\ trace[1].n = timer.event /\ trace[1].v # None
    /\ Cardinality(Events("cb", timer.event)) = 1
    /\ \E first, second \in 1 .. Len(loop.handles) :
           /\ first < second
           /\ loop.handles[first].ran /\ loop.handles[second].ran
           /\ loop.handles[first].when = loop.handles[second].when
           /\ trace[1].i = second
           /\ \A h \in 1 .. Len(loop.handles) : ~loop.handles[h].cancelled
    /\ Len(loop.handles) = MaxCalls - 1

(* ---- C22 --------------------------------------------------------------- *)
\* the handles armed for a deadline that had passed when they were armed
PastArmed == {h \in 1 .. Len(loop.handles) : loop.handles[h].past}

\* the handles the step cancels
Cancelled ==
    {h \in 1 .. Len(loop.handles) : loop'.handles[h].cancelled /\ ~loop.handles[h].cancelled}

\* the step is time's listener calling setup_timer with a configuration
\* other than the one in place
Reconfigured ==
    /\ SetupTimerCalled
    /\ <<new_time(Top.val), new_emit(Top.val)>> # <<timer.timer_time, timer.timer_emit>>

\* on a loop that keeps running, a handle armed for a past deadline fires
\* unless it is cancelled
PastFires ==
    \A h \in 1 .. MaxCalls + 1 :
        (h \in PastArmed /\ h \in Scheduled(loop)) ~>
            (h <= Len(loop.handles) /\ (loop.handles[h].ran \/ loop.handles[h].cancelled))

OnePerSettledChange ==
    /\ (Reconfigured /\ new_time(Top.val) # None /\ new_time(Top.val) <= loop.now)
           => /\ timer'.timer \in Scheduled(loop') \ Scheduled(loop)
              /\ loop'.handles[timer'.timer].past
              /\ loop'.handles[timer'.timer].when = new_time(Top.val)
              /\ Fired = {}
    /\ \A h \in PastArmed \cap Cancelled :
           /\ Reconfigured
           /\ h = timer.timer
           /\ ~loop.handles[h].ran
    /\ \A h \in PastArmed \cap Fired :
           /\ h = timer.timer
           /\ stack'[1].val = new_emit(reactives[TimeValue].value)
           /\ Scheduled(loop') = {}

OwnTransaction ==
    /\ \A j \in 1 .. Len(stack) :
           (stack[j].op = "emit" /\ stack[j].self = timer.event) =>
               /\ j = 1 /\ stack[j].entry = NoContext
               /\ trace[1] = Ev("call", timer.event, stack[j].val, trace[1].i)
               /\ loop.handles[trace[1].i].ran
    /\ (trace # <<>> /\ trace[1].n # timer.event) =>
           Events("store", timer.event) \cup Events("cb", timer.event) = {}
    /\ trace = <<>> => \A h \in 1 .. Len(loop.handles) : ~loop.handles[h].ran

\* time's listener returns without a call and without running a handle; a
\* handle is run only between two calls, when it is due
Deferred ==
    /\ SetupTimerCalled => Fired = {}
    /\ Fired # {} =>
           /\ ~Running
           /\ \A h \in Fired : loop.handles[h].when <= loop.now

\* C23 (emit_at never emits synchronously): no emission of the emit_at
\* event happens inside the call that constructs it or inside the
\* transaction that changes its time value, not even for an already-past
\* deadline; every emission happens in a later scheduler callback and
\* therefore starts its own top-level transaction.
C23_NeverSynchronous == []OwnTransaction /\ [][Deferred]_vars

\* the assignment of an already-past deadline has returned, its timer is
\* pending and the event has emitted nothing
C23_Witness ==
    /\ CallDone /\ exc = "none"
    /\ trace[1].n = TimeValue
    /\ new_time(trace[1].v) # None /\ new_time(trace[1].v) <= loop.now
    /\ timer.timer \in PastArmed \cap Scheduled(loop)
    /\ Events("cb", timer.event) = {}

(* ---- C24 --------------------------------------------------------------- *)
\* the calls of get_next_state in the trace, by the position of their outcome
FsmCalls == Events("ret", fsm.state)

\* the events of the trace from the outcome r up to the next call
After(r) ==
    {k \in r + 1 .. Len(trace) :
        \A c \in r + 1 .. k : ~(trace[c].e = "f" /\ trace[c].n = fsm.state)}

\* the call with outcome r returned a state other than the one it was given
NewState(r) == trace[r].v # None /\ trace[r].v # trace[r - 1].v

\* every assignment of the state stores the state the call before it
\* returned, which was a new one; a call that returned the state it was
\* given, or raised, is followed by no assignment and no listener call;
\* once the top-level call has returned, a call that returned a new state
\* was followed by one assignment and one call of each listener; the state
\* Value holds the state last returned; and timeout_length, the dependent
\* of the state, is run only after an assignment of the state
StateUpdates ==
    /\ \A r \in FsmCalls :
           /\ \A k \in After(r) :
                  (trace[k].n = fsm.state /\ trace[k].e \in {"store", "cb"})
                      => NewState(r) /\ trace[k].v = trace[r].v
           /\ (NewState(r) /\ ~Running /\ exc = "none") =>
                  /\ Cardinality({k \in After(r) : trace[k].e = "store"
                                                     /\ trace[k].n = fsm.state}) = 1
                  /\ \A i \in 1 .. Len(reactives[fsm.state].cbs) :
                         Cardinality({k \in After(r) :
                                         trace[k] = Ev("cb", fsm.state, trace[r].v, i)}) = 1
    /\ \A k \in Events("store", fsm.state) : \E r \in FsmCalls : k \in After(r)
    /\ (~Running /\ exc = "none") => reactives[fsm.state].value = fsm.state_value
    /\ \A k \in Events("run", fsm.timeout_length) :
           \E s \in Events("store", fsm.state) : s < k

\* C24 (FSM state updates): the FSM's state Value is assigned (and its
\* listeners notified) exactly when get_next_state returns a state
\* different from the state it was called with; when it returns the same
\* state, the state Value keeps its datum, its listeners are not invoked
\* and its dependents are not flagged to run.
C24_StateUpdates == StateUpdates

\* the program's last call has returned; in it get_next_state was called
\* once and returned the state it was given, and the state Value was
\* neither assigned nor its listener called
C24_Witness ==
    /\ CallDone /\ exc = "none" /\ Constructed
    /\ ops = MaxOps
    /\ Cardinality(FsmCalls) = 1
    /\ \A r \in FsmCalls : ~NewState(r) /\ trace[r].v # None /\ trace[r].v = MaxStates
    /\ Events("store", fsm.state) = {}
    /\ Events("cb", fsm.state) = {}

(* ---- C25 --------------------------------------------------------------- *)
\* the payloads node n emitted, or the data it was assigned, at the
\* positions from..Len(trace) of the trace, in order
RECURSIVE Emitted(_, _)
Emitted(n, from) ==
    IF from > Len(trace) THEN <<>>
    ELSE IF trace[from].e = "store" /\ trace[from].n = n
         THEN <<trace[from].v>> \o Emitted(n, from + 1)
         ELSE Emitted(n, from + 1)

\* the position after the last call of get_next_state in the trace
SinceLastCall ==
    IF FsmCalls = {} THEN 1
    ELSE (CHOOSE r \in FsmCalls : \A q \in FsmCalls : q <= r) + 1

\* the events of the trace that are changes of an input or of the timeout
InputChanges ==
    {k \in 1 .. Len(trace) :
        /\ trace[k].e = "store"
        /\ trace[k].n \in Range(fsm.inputs) \cup {fsm.timeout_event}}

\* the first call is made in the constructor, with FSM.START, and no other
\* is; between calls the lists of the Events are empty and the flag is
\* clear; and a top-level call that has returned made one call of
\* get_next_state, after the changes of the inputs, unless it failed before
Invocations ==
    /\ ~Constructed =>
           /\ Cardinality(FsmCalls) <= 1
           /\ \A r \in FsmCalls : trace[r - 1] = Ev("f", fsm.state, START, None)
           /\ (~Running /\ exc = "none") => Cardinality(FsmCalls) = 1
    /\ Constructed => \A r \in FsmCalls : trace[r - 1].v # START
    /\ ~Running =>
           /\ ~fsm.handling_timeout
           /\ \A i \in 1 .. Len(fsm.inputs) :
                  reactives[fsm.inputs[i]].kind = "Event" => fsm.inputs_list[i] = <<>>
    /\ (CallDone /\ Constructed) =>
           /\ Cardinality(FsmCalls) <= 1
           /\ exc = "none" => Cardinality(FsmCalls) = 1
           /\ \A r \in FsmCalls : InputChanges # {} /\ \A k \in InputChanges : k < r

\* the step is the call of get_next_state
Called ==
    /\ Running /\ exc = "none"
    /\ Top.op = "done" /\ Top.pc = "enter"
    /\ Top.self = fsm.state

\* at a call of get_next_state the argument of an Event is the list of the
\* payloads it emitted since the call before, that of a Value its datum;
\* after the call, however it ends, the lists of the Events are empty
Arguments ==
    Called =>
        \A i \in 1 .. Len(fsm.inputs) :
            IF reactives[fsm.inputs[i]].kind = "Event"
            THEN /\ fsm.inputs_list[i] = Emitted(fsm.inputs[i], SinceLastCall)
                 /\ fsm'.inputs_list[i] = <<>>
            ELSE /\ fsm.inputs_list[i] = <<reactives[fsm.inputs[i]].value>>
                 /\ fsm'.inputs_list[i] = fsm.inputs_list[i]

\* C25 (FSM invocation): get_next_state is called once at construction with
\* FSM.START and then exactly once per transaction in which an input Value
\* changed, an input Event emitted or the timeout fired; the argument for
\* each Event input is the list of payloads that Event emitted since the
\* previous call (empty if none), and these lists are emptied after every
\* call, also when get_next_state raises.
C25_Invocation == []Invocations /\ [][Arguments]_vars

\* the assignment of source made button emit twice; get_next_state was
\* called once, after both, and raised; the list of button is empty again
C25_Witness ==
    /\ CallDone /\ Constructed
    /\ exc = "UserError"
    /\ Len(Emitted(fsm.inputs[1], 1)) > 1
    /\ Cardinality(FsmCalls) = 1
    /\ \A r \in FsmCalls : trace[r].v = None /\ \A k \in InputChanges : k < r
    /\ fsm.inputs_list[1] = <<>>

(* ---- C26 --------------------------------------------------------------- *)
\* the outcome of the last call of get_next_state in the trace
LastCall == CHOOSE r \in FsmCalls : \A q \in FsmCalls : q <= r

\* what the last call of get_next_state, if it returned, has left: with the
\* timeout it was given, the timer as it was; with None, no timer and no
\* timeout; with another timeout, one timer, due that long from now
TimeoutInPlace ==
    (FsmCalls # {} /\ exc = "none") =>
        IF trace[LastCall].i = trace[LastCall - 1].i
        THEN Events("store", fsm.timeout_length) = {}
        ELSE IF trace[LastCall].i = None
        THEN /\ Scheduled(loop) = {}
             /\ timer.timer = None
             /\ reactives[fsm.timeout_length].value = None
             /\ reactives[fsm.timeout_time].value = None
        ELSE /\ Scheduled(loop) = {timer.timer}
             /\ loop.handles[timer.timer].when = loop.now + trace[LastCall].i
             /\ reactives[fsm.timeout_length].value = trace[LastCall].i

\* a call is given 0.0 on account of handling_timeout only in the
\* transaction of a timer that fired, uncancelled and due, which makes only
\* that call; and a timer that fired made it
Expiry ==
    /\ \A k \in Events("expired", fsm.state) :
           /\ trace[1] = Ev("call", fsm.timeout_event, None, trace[1].i)
           /\ loop.handles[trace[1].i].ran /\ ~loop.handles[trace[1].i].cancelled
           /\ loop.handles[trace[1].i].when <= loop.now
           /\ trace[k + 1].e = "f" /\ trace[k + 1].i = 0
           /\ Cardinality(Events("f", fsm.state)) = 1
    /\ (CallDone /\ trace[1].n = fsm.timeout_event) =>
           /\ Cardinality(Events("f", fsm.state)) = 1
           /\ Cardinality(Events("expired", fsm.state)) = 1
    /\ Cardinality(Scheduled(loop)) <= 1

\* the call made for a timer that fired is given empty lists; the flag is
\* cleared by every call; a timer that was cancelled does not fire; and
\* when the outermost call returns the timeout is in place
TimeoutStep ==
    /\ (Called /\ fsm.handling_timeout) =>
           \A i \in 1 .. Len(fsm.inputs) :
               reactives[fsm.inputs[i]].kind = "Event" => fsm.inputs_list[i] = <<>>
    /\ Called => ~fsm'.handling_timeout
    /\ \A h \in Fired : ~loop.handles[h].cancelled
    /\ (Running /\ stack' = <<>>) => TimeoutInPlace'

RECURSIVE Digits(_)
Digits(t) ==
    IF t = 0 THEN <<>>
    ELSE <<(t % (MaxPayload + 2)) - 1>> \o Digits(t \div (MaxPayload + 2))

\* the k most recent elements of a list in arrival order, all of them if
\* there are fewer
Newest(values, k) ==
    [i \in 1 .. (IF Len(values) < k THEN Len(values) ELSE k) |->
        values[i + (IF Len(values) < k THEN 0 ELSE Len(values) - k)]]

\* the call of get_value of the window Value in the operation
WindowGets == Events("get", Len(reactives))

\* what the window held before the operation
WindowBefore == Digits(trace[CHOOSE g \in WindowGets : TRUE].i)

WindowNow == Digits(reactives[Len(reactives)].value)

\* C27: after every top-level set or emit on the source or on num_values
\* the window holds the most recent elements of the source in arrival
\* order, at most num_values of them: after an operation on the source, the
\* newest num_values of what it held and the new element; after an
\* assignment of num_values, the newest num_values of what it held, so that
\* a decrease drops the oldest at once and an increase brings nothing back
C27_Window ==
    (CallDone /\ exc = "none" /\ reactives[Len(reactives)].fn = "window") =>
        /\ Cardinality(WindowGets) = 1
        /\ WindowNow = output_values
        /\ Len(WindowNow) <= reactives[2].value
        /\ trace[1].n = 1 =>
               WindowNow = Newest(Append(WindowBefore, trace[1].v), reactives[2].value)
        /\ trace[1].n = 2 =>
               /\ reactives[2].value = trace[1].v
               /\ WindowNow = Newest(WindowBefore, trace[1].v)
               /\ trace[1].v >= Len(WindowBefore) => WindowNow = WindowBefore

\* num_values was raised above the length of a window that had lost its
\* first element, and the window is as it was
C27_Witness ==
    /\ CallDone /\ exc = "none" /\ reactives[Len(reactives)].fn = "window"
    /\ reactives[1].kind = "Value"
    /\ trace[1].n = 2 /\ trace[1].v > trace[1].i
    /\ WindowNow # <<>> /\ Len(WindowNow) < trace[1].v
    /\ WindowNow = WindowBefore
    /\ WindowNow[1] # 1

(* ---- C28 --------------------------------------------------------------- *)
\* the live nodes reached from the nodes of S through dependents edges
RECURSIVE DependentsClosure(_, _)
DependentsClosure(rs, S) ==
    LET T == S \cup UNION {{d \in Range(rs[m].deps) : rs[d].kind # "dead"} : m \in S}
    IN IF T = S THEN S ELSE DependentsClosure(rs, T)

\* _in_new_transaction has just built the lists of the top frame's node
ClosureBuilt ==
    /\ Running /\ exc = "none"
    /\ Top.tx = "new" /\ Top.pc = "body"
    /\ trace # <<>>
    /\ trace[Len(trace)].e = "dfs" /\ trace[Len(trace)].n = Top.self

\* C28 (the sorted closure is a topological order): in an acyclic graph the
\* closure just built for a root begins with the root, holds exactly the
\* live nodes reachable from the root through dependents edges, each once,
\* puts u before d for every dependents edge u -> d between its members, and
\* id_to_idx maps each member to its position
C28_TopologicalOrder ==
    (ClosureBuilt /\ Acyclic) =>
        LET b == ClosureOf(Top)
        IN /\ b.all[1] = Top.self
           /\ Range(b.all) = DependentsClosure(reactives, {Top.self})
           /\ \A i, j \in 1 .. Len(b.all) : b.all[i] = b.all[j] => i = j
           /\ \A i, j \in 1 .. Len(b.all) :
                  b.all[j] \in Range(reactives[b.all[i]].deps) => i < j
           /\ DOMAIN b.idx = Range(b.all)
           /\ \A i \in 1 .. Len(b.all) : b.idx[b.all[i]] = i

\* a closure built for the root of a diamond whose first dependent is
\* downstream of its second one
C28_Witness ==
    /\ ClosureBuilt /\ Acyclic
    /\ LET b == ClosureOf(Top)
           r == reactives[Top.self]
       IN /\ Len(b.all) = 3 /\ Len(r.deps) = 2
          /\ r.deps[1] \in Range(reactives[r.deps[2]].deps)
          /\ b.all = <<Top.self, r.deps[2], r.deps[1]>>

(* ---- C29 --------------------------------------------------------------- *)
\* a new transaction has just started on the top frame's node, with lists
\* just built or cached
Started ==
    /\ Running /\ exc = "none"
    /\ Top.tx = "new" /\ Top.pc = "body"

\* the lists b are what a build from the graph as it is would give for the
\* root r: the same closure, in a valid order, with the positions of every
\* member's dependents and the versions of now
Fresh(b, r) ==
    /\ b.all # <<>> /\ b.all[1] = r
    /\ Range(b.all) = DependentsClosure(reactives, {r})
    /\ \A i, j \in 1 .. Len(b.all) : b.all[i] = b.all[j] => i = j
    /\ \A i, j \in 1 .. Len(b.all) :
           b.all[j] \in Range(reactives[b.all[i]].deps) => i < j
    /\ DOMAIN b.idx = Range(b.all)
    /\ \A i \in 1 .. Len(b.all) :
           /\ b.idx[b.all[i]] = i
           /\ b.vers[i] = reactives[b.all[i]].ver
           /\ Len(b.didx[i]) = Len(reactives[b.all[i]].deps)
           /\ \A j \in 1 .. Len(b.didx[i]) :
                  b.all[b.didx[i][j]] = reactives[b.all[i]].deps[j]

\* a step that starts a new transaction with the lists cached before it
Reuses ==
    /\ Running /\ Top.pc = "enter" /\ Top.op \in {"set", "emit"}
    /\ Len(stack') = Len(stack) /\ stack'[Len(stack)].tx = "new"
    /\ reactives[Top.self].tinfo # 0
    /\ \A k \in 1 .. Len(trace') : k > Len(trace) => trace'[k].e # "dfs"

\* the cached lists of the top frame's node are current: no member was
\* collected and no member's version differs from the one captured
Current ==
    LET b == reactives[Top.self].lists[reactives[Top.self].tinfo]
    IN \A i \in 1 .. Len(b.all) :
           /\ reactives[b.all[i]].kind # "dead"
           /\ reactives[b.all[i]].ver = b.vers[i]

\* C29 (index freshness): the lists a newly started transaction uses are
\* those a build from the live graph would give at that moment, and cached
\* lists are reused only when no member was collected and every member's
\* version is the one captured
C29_IndexFresh ==
    /\ [](Started => Fresh(ClosureOf(Top), Top.self))
    /\ [][Reuses => Current]_vars

\* a transaction has started with cached lists of two or more nodes
C29_Witness ==
    /\ Started
    /\ \A k \in 1 .. Len(trace) : trace[k].e # "dfs"
    /\ Len(ClosureOf(Top).all) >= 2
    /\ Fresh(ClosureOf(Top), Top.self)

(* ---- C30 --------------------------------------------------------------- *)
\* how many times x occurs in the sequence s
Count(s, x) == Cardinality({k \in 1 .. Len(s) : s[k] = x})

\* how many live weak references to d the node u holds
LiveReferences(u, d) ==
    IF reactives[d].kind = "dead" THEN 0 ELSE Count(reactives[u].deps, d)

\* inputs and dependents are inverses, with multiplicity
EdgeInverse ==
    \A u, d \in Ids : Count(reactives[d].inputs, u) = LiveReferences(u, d)

\* a step leaves the inputs of every node that lives on as they were, or
\* with more at the end
InputsKept ==
    \A d \in Ids :
        reactives'[d].kind # "dead" =>
            /\ Len(reactives'[d].inputs) >= Len(reactives[d].inputs)
            /\ SubSeq(reactives'[d].inputs, 1, Len(reactives[d].inputs))
                   = reactives[d].inputs

\* C30 (edge inverse invariant): in every state (a collection and the
\* cleanup of its weak references are one step), d lists u in its inputs n
\* times exactly when u holds n live weak references to d, and no step
\* removes an input edge of a node that lives on
C30_EdgeInverse == []EdgeInverse /\ [][InputsKept]_vars

\* a node lists the same input twice, the second time by add_input, and a
\* dependent of that input has been collected
C30_Witness ==
    /\ EdgeInverse
    /\ \E u, d \in Ids :
           /\ Count(reactives[d].inputs, u) = 2
           /\ LiveReferences(u, d) = 2
           /\ reactives[u].ver > Len(reactives[u].deps)

(* ---- C31 --------------------------------------------------------------- *)
\* the nodes of the next state that are objects: not collected
LiveNext == {n \in 1 .. Len(reactives') : reactives'[n].kind # "dead"}

\* a step changes a node's version by the number of references its
\* dependents list gained or lost (a step adds or removes, never both), and
\* a node made by the step starts at zero
VersionStep ==
    \A n \in LiveNext :
        IF n \in Ids
        THEN LET gained == Len(reactives'[n].deps) - Len(reactives[n].deps)
             IN /\ reactives'[n].ver >= reactives[n].ver
                /\ reactives'[n].ver - reactives[n].ver
                       = IF gained >= 0 THEN gained ELSE 0 - gained
                /\ (reactives'[n].deps = reactives[n].deps)
                       = (reactives'[n].ver = reactives[n].ver)
        ELSE reactives'[n].ver = 0 /\ reactives'[n].deps = <<>>

\* every snapshot of a version in cached lists that equals the version of
\* now was taken of the dependents list of now
SnapshotsAgree ==
    \A r \in Ids : \A s \in 1 .. Len(reactives[r].lists) :
        LET b == reactives[r].lists[s]
        IN \A i \in 1 .. Len(b.all) :
               (reactives[b.all[i]].kind # "dead"
                   /\ b.vers[i] = reactives[b.all[i]].ver) =>
                   /\ Len(b.didx[i]) = Len(reactives[b.all[i]].deps)
                   /\ \A j \in 1 .. Len(b.didx[i]) :
                          b.all[b.didx[i][j]] = reactives[b.all[i]].deps[j]

\* C31 (version counter): a node's version starts at 0, goes up by one for
\* every reference added to or deleted from its dependents list and is
\* changed by nothing else (not by set, emit or a transaction), never goes
\* down, so that it counts the additions and the removals; hence a snapshot
\* equal to the version of now means the same dependents list
C31_VersionCounter ==
    /\ [][VersionStep]_vars
    /\ [](\A n \in Ids : reactives[n].kind # "dead" =>
              /\ reactives[n].ver >= Len(reactives[n].deps)
              /\ (reactives[n].ver - Len(reactives[n].deps)) % 2 = 0)
    /\ []SnapshotsAgree

\* a set on a root that gained two dependents and lost one has returned: its
\* version is three, and the transaction did not change it
C31_Witness ==
    /\ CallDone /\ exc = "none"
    /\ Len(reactives[trace[1].n].deps) = 1
    /\ reactives[trace[1].n].ver = 3
    /\ Events("run", reactives[trace[1].n].deps[1]) # {}

(* ---- C32 --------------------------------------------------------------- *)
\* the nodes the traversal from r visits that list a dead reference
MeetsDead(r) ==
    {u \in DependentsClosure(reactives, {r}) :
        \E j \in 1 .. Len(reactives[u].deps) : reactives[reactives[u].deps[j]].kind = "dead"}

\* a step in which a transaction starts on a node that has dependents
StartsNew ==
    /\ Running /\ exc = "none"
    /\ Top.op \in {"set", "emit"} /\ Top.pc = "enter"
    /\ ~Tracked(reactives, mark_changed, Top.self)
    /\ reactives[Top.self].deps # <<>>

\* C32 (pruning during traversal), as the claim states it: when the
\* traversal of a starting transaction meets a dead reference whose callback
\* has not run, the reference is removed from the dependents list, the
\* version is incremented, and the build and the transaction complete
\* without error
C32_Pruning ==
    /\ [][(StartsNew /\ MeetsDead(Top.self) # {}) =>
              /\ exc' = "none"
              /\ \A u \in MeetsDead(Top.self) :
                     /\ \A j \in 1 .. Len(reactives'[u].deps) :
                            reactives'[reactives'[u].deps[j]].kind # "dead"
                     /\ reactives'[u].ver > reactives[u].ver]_vars
    /\ []((CallDone /\ Uncleaned(reactives) # {}) => exc = "none")

(* ---- C33 --------------------------------------------------------------- *)
\* a step of a walk that invokes the settle step of a node
WalkInvokes ==
    /\ Running /\ exc = "none"
    /\ Top.op \in {"set", "emit"} /\ Top.pc = "walk"
    /\ Len(stack') = Len(stack) + 1
    /\ stack'[Len(stack')].op = "done"

\* the direct inputs of d flagged changed in the lists b
ChangedInputs(b, d) ==
    {u \in Range(reactives[d].inputs) \cap DOMAIN b.idx : b.changed[b.idx[u]]}

\* C33 (minimal re-run set): the walk of a transaction invokes the settle
\* step of a node only if one of its direct inputs is flagged changed in
\* that transaction's lists, and every node that has been invoked has a
\* direct input that was assigned or emitted earlier in the call; so a node
\* whose inputs were all untouched or returned NoChange is not invoked, in
\* the root's closure though it is
C33_MinimalRerun ==
    /\ [][WalkInvokes =>
              ChangedInputs(ClosureOf(Top), stack'[Len(stack')].self) # {}]_vars
    /\ [](\A k \in 1 .. Len(trace) :
              trace[k].e = "run" =>
                  \E j \in 1 .. k - 1 :
                      /\ trace[j].e = "store"
                      /\ trace[j].n \in Range(reactives[trace[k].n].inputs))

\* a set has returned in which a Value's get_value returned NoChange, and
\* the dependent of that Value, a member of the root's closure, did not run
C33_Witness ==
    /\ CallDone /\ exc = "none"
    /\ \E m, d \in Ids :
           /\ \E k \in Events("get", m) : trace[k].v = NoChange
           /\ Events("store", m) = {}
           /\ reactives[d].inputs = <<m>>
           /\ d \in DOMAIN reactives[trace[1].n].lists[reactives[trace[1].n].tinfo].idx
           /\ Events("run", d) = {}

(* ---- C34 --------------------------------------------------------------- *)
\* the flags of the lists b agree: the root is flagged changed, and a
\* position is flagged to run exactly when a position flagged changed has
\* it among its direct dependents
FlagsAgree(b) ==
    /\ b.changed[1]
    /\ \A d \in 1 .. Len(b.all) :
           b.to_run[d] <=> \E u \in 1 .. Len(b.all) : b.changed[u] /\ d \in Range(b.didx[u])

\* a new transaction starts marking from cleared flags: only its root is
\* flagged changed
StartsCleared ==
    Started => \A p \in 1 .. Len(ClosureOf(Top).all) : ClosureOf(Top).changed[p] <=> p = 1

\* a step in which a set/emit joins the active transaction
Joins ==
    /\ Running /\ exc = "none"
    /\ Top.op \in {"set", "emit"} /\ Top.pc = "enter"
    /\ Tracked(reactives, mark_changed, Top.self)

\* the transactions in progress before and after a step
InProgress ==
    {k \in 1 .. Len(stack) :
        /\ stack[k].tx = "new" /\ k <= Len(stack')
        /\ stack'[k].tx = "new" /\ stack'[k].self = stack[k].self
        /\ stack'[k].slot = stack[k].slot}

\* no flag of a transaction in progress is cleared by the step
FlagsKept ==
    \A k \in InProgress :
        LET b == reactives[stack[k].self].lists[stack[k].slot]
            c == reactives'[stack[k].self].lists[stack[k].slot]
        IN \A p \in 1 .. Len(b.all) :
               /\ b.changed[p] => c.changed[p]
               /\ b.to_run[p] => c.to_run[p]

\* marking a node that is flagged changed already changes no flag
MarkedAgain ==
    (Joins /\ ListsOf(reactives, mark_changed).changed[
                  ListsOf(reactives, mark_changed).idx[Top.self]])
        => ListsOf(reactives', mark_changed) = ListsOf(reactives, mark_changed)

\* C34 (flag invariant), as the claim states it: a new transaction starts
\* marking from flags that are all false; throughout a transaction the root
\* is flagged changed and a position is flagged to run exactly when a
\* position flagged changed has it among its direct dependents; marking a
\* node flagged changed already changes no flag; and no flag is cleared
\* before the transaction ends
C34_FlagInvariant ==
    /\ []StartsCleared
    /\ [](\A k \in 1 .. Len(stack) : stack[k].tx = "new" => FlagsAgree(ClosureOf(stack[k])))
    /\ [][MarkedAgain]_vars
    /\ [][FlagsKept]_vars

(* ---- C35 --------------------------------------------------------------- *)
\* a step in which the walk of a transaction ends without an exception
WalkEnds ==
    /\ Running /\ exc = "none"
    /\ Top.op \in {"set", "emit"} /\ Top.tx = "new" /\ Top.pc = "walk"
    /\ Len(stack') = Len(stack) - 1

\* the live nodes flagged to run in the lists of the top frame that its walk
\* has not invoked
LeftUnrun ==
    LET b == ClosureOf(Top)
    IN {p \in 2 .. Len(b.all) :
           /\ b.to_run[p] /\ reactives[b.all[p]].kind # "dead"
           /\ b.all[p] \notin Range(Top.ran)}

\* C35 (walk completeness), as the claim states it: when the walk of a
\* transaction ends without an exception, every live node whose position is
\* flagged to run has had its settle step invoked in the transaction,
\* whenever the flag was set
C35_WalkComplete == [][WalkEnds => LeftUnrun = {}]_vars

(* ---- C36 --------------------------------------------------------------- *)
\* the transactions in progress on the node of the top frame
Enclosing ==
    {k \in 1 .. Len(stack) - 1 : stack[k].tx = "new" /\ stack[k].self = Top.self}

\* the first warning of the call: before it every set/emit joined the
\* transaction of the call
FirstWarning ==
    CHOOSE w \in 1 .. Len(trace) :
        trace[w].e = "warn" /\ \A j \in 1 .. w - 1 : trace[j].e # "warn"

\* the nodes the transaction of the call had flagged to run before the
\* first warning: the dependents of what had been assigned or emitted
FlaggedBefore ==
    {d \in Ids : \E u \in Range(reactives[d].inputs) : \E j \in 1 .. FirstWarning :
        trace[j].e = "store" /\ trace[j].n = u}

\* a transaction was started on the root of the call inside the call
NestedOnRoot ==
    \E w \in 1 .. Len(trace) : trace[w].e = "warn" /\ trace[w].v = trace[1].n

\* C36 (re-entrant transactions on one root), as the claim states it: a
\* transaction started on R through the untracked-dependency path inside a
\* transaction on R leaves the flags of the enclosing transaction as they
\* are, and every node the enclosing transaction had flagged is run by the
\* time the call returns
C36_Reentrant ==
    /\ [][(StartsNew /\ Enclosing # {}) =>
              \A k \in Enclosing :
                  reactives'[Top.self].lists[stack[k].slot]
                      = reactives[Top.self].lists[stack[k].slot]]_vars
    /\ []((CallDone /\ exc = "none" /\ NestedOnRoot) =>
              \A d \in FlaggedBefore : Events("run", d) # {})

(* ---- C37 --------------------------------------------------------------- *)
\* the walk of the top frame is about to look at its next position
Walking == Running /\ exc = "none" /\ Top.op \in {"set", "emit"} /\ Top.pc = "walk"

\* the flagged positions the walk of the top frame has not passed, and those
\* of them whose node has been collected since the index was built
Ahead ==
    LET b == reactives[Top.self].lists[Top.slot]
    IN {p \in Top.i .. Len(b.all) : b.to_run[p]}

GoneAhead ==
    {p \in Ahead : reactives[reactives[Top.self].lists[Top.slot].all[p]].kind = "dead"}

\* the flagged positions of lists b whose node has been collected
Collected(b) == {p \in 2 .. Len(b.all) : b.to_run[p] /\ reactives[b.all[p]].kind = "dead"}

\* the lists of the transaction of the call that has returned
CallLists == reactives[trace[1].n].lists[reactives[trace[1].n].tinfo]

\* C37 (collection during a transaction): while a flagged position whose node
\* was collected after the index was built lies ahead of the walk, the
\* walk's next step raises nothing and is the settle step of the first
\* flagged position that still has its node, or the end of the walk if there
\* is none; and when the call has returned, every flagged position that has
\* its node was run at that position
C37_CollectedSkipped ==
    /\ [][(Walking /\ GoneAhead # {}) =>
              /\ exc' = "none"
              /\ IF Ahead = GoneAhead
                 THEN stack' = Pop(stack)
                 ELSE LET b == reactives[Top.self].lists[Top.slot]
                          q == CHOOSE p \in Ahead \ GoneAhead :
                                   \A p2 \in Ahead \ GoneAhead : p <= p2
                      IN /\ Len(stack') = Len(stack) + 1
                         /\ stack'[Len(stack')].op = "done"
                         /\ stack'[Len(stack')].self = b.all[q]
                         /\ trace' = Append(trace, Ev("run", b.all[q], q, Len(stack)))]_vars
    /\ []((CallDone /\ exc = "none" /\ reactives[trace[1].n].tinfo # 0) =>
              (Collected(CallLists) # {} =>
                   \A q \in 2 .. Len(CallLists.all) :
                       (CallLists.to_run[q] /\ reactives[CallLists.all[q]].kind # "dead") =>
                           \E k \in Events("run", CallLists.all[q]) : trace[k].v = q))

\* a call has returned in which the walk passed a flagged position whose
\* node had been collected and ran a flagged position after it
C37_Witness ==
    /\ CallDone /\ exc = "none" /\ reactives[trace[1].n].tinfo # 0
    /\ \E p \in Collected(CallLists) : \E q \in p + 1 .. Len(CallLists.all) :
           /\ CallLists.to_run[q]
           /\ \E k \in Events("run", CallLists.all[q]) : trace[k].v = q

(* ---- C38 --------------------------------------------------------------- *)
\* the nodes constructed by a listener in the call
Made == {trace[j].n : j \in {k \in 1 .. Len(trace) : trace[k].e = "new"}}

\* the top frame is the listener about to construct a Value
AboutToMake ==
    /\ Top.op = "cb" /\ Top.pc = "enter"
    /\ reactives[Top.self].cbs[Top.i].act = "make"

\* the top frame is the _on_inputs_done that Value.__init__ called
InitialSettle ==
    /\ Top.op = "done" /\ Top.self \in Made
    /\ stack[Len(stack) - 1].op = "cb"

\* the top frame is the assignment made by that _on_inputs_done
InitialAssignment ==
    /\ Len(stack) >= 3
    /\ Top.op = "set" /\ Top.self \in Made
    /\ stack[Len(stack) - 1].op = "done" /\ stack[Len(stack) - 1].self = Top.self
    /\ stack[Len(stack) - 2].op = "cb"

\* the lists of every transaction in progress are left as they are
ListsKept ==
    \A k \in 1 .. Len(stack) :
        stack[k].tx = "new" =>
            reactives'[stack[k].self].lists[stack[k].slot]
                = reactives[stack[k].self].lists[stack[k].slot]

\* C38 (construction inside a transaction): the initial assignment of a
\* Value constructed with a recompute function by a listener, while a
\* transaction is in progress, warns of an untracked dependency from the
\* root of that transaction to the new Value and enters a transaction rooted
\* at the new Value, in which the datum is assigned; when it ends the
\* context of the enclosing transaction is the active one again; no step of
\* the construction alters the lists of a transaction in progress; and the
\* walk of the call does not run the new Value
C38_ConstructionInside ==
    /\ [][(Running /\ exc = "none" /\ InitialAssignment /\ Top.pc = "enter") =>
              /\ mark_changed.k = "tx"
              /\ trace' = Append(trace, Ev("warn", mark_changed.self, Top.self, 0))
              /\ mark_changed'.k \in {"tx", "nodeps"}
              /\ mark_changed'.self = Top.self]_vars
    /\ [][(Running /\ exc = "none" /\ InitialAssignment /\ Top.pc = "body") =>
              /\ mark_changed.self = Top.self
              /\ reactives'[Top.self].value = Top.val]_vars
    /\ [][(Running /\ exc = "none" /\ InitialAssignment /\ stack' = Pop(stack)) =>
              /\ mark_changed' = Top.entry
              /\ mark_changed'.k = "tx"
              /\ mark_changed'.self = trace[1].n]_vars
    /\ [][(Running /\ exc = "none" /\ (AboutToMake \/ InitialSettle \/ InitialAssignment)) =>
              ListsKept]_vars
    /\ [](\A n \in Made : Events("run", n) = {})

\* a call has returned in which a listener constructed a dependent of the
\* root: it was warned about and assigned its datum, and the walk of the
\* call ran a node afterwards
C38_Witness ==
    /\ CallDone /\ exc = "none"
    /\ \E n \in Made :
           /\ n \in Range(reactives[trace[1].n].deps)
           /\ reactives[n].value # NoValue
           /\ \E w \in Events("warn", trace[1].n), k \in Events("store", n) :
                  /\ trace[w].v = n /\ w < k
                  /\ \E j \in k + 1 .. Len(trace) : trace[j].e = "run"

====
